---- MODULE Spec2Model ----
(***************************************************************************)
(* A model of the SDFormat reader (src/src/parser.cc) and of parts of the  *)
(* DOM (src/src/Link.cc, src/src/Material.cc).                             *)
(*                                                                         *)
(* An sdf::Element is a record                                             *)
(*     [name, attrs, value, children]                                      *)
(* name: the element name; attrs: a function from the names of the         *)
(* attributes the element has to their string values; value: the text of   *)
(* the element ("" when it has none); children: the sequence of child      *)
(* elements in insertion order.  sdf::Errors is a sequence of error codes. *)
(***************************************************************************)
EXTENDS Integers, Sequences, FiniteSets, TLC

VARIABLES
  parent,   \* the element that contains the <include> tag (_parent / _sdf)
  errors,   \* the caller's sdf::Errors (_errors)
  ret,      \* what the call returned
  call,     \* the call that produced this state: its name, inputs, pre-state
  sdf,      \* the sdf::SDF object the readers fill (_sdf)
  link,     \* the sdf::Link object (its dataPtr)
  material  \* the sdf::Material object (its dataPtr)

vars == <<parent, errors, ret, call, sdf, link, material>>

-----------------------------------------------------------------------------
(* Bounds of the model *)

\* longest list of children of an included model
MaxChildren == 2
\* longest list of joints of an included model in the joint inputs
MaxJoints == 1
\* longest list of top-level entities of an included file
MaxTop == 2
\* longest list of attributes of an XML element
MaxAttrs == 2
\* longest list of children of an XML element read by readXml
MaxXmlChildren == 2
\* longest list of <include> elements of an included file
MaxIncludes == 2
\* deepest nesting of readFile calls that is followed
MaxDepth == 4
\* most calls of Load on one object
MaxLoads == 2
\* most joints of the root model
MaxModelJoints == 2
\* most models of a world
MaxWorldModels == 2
\* most <sdf> entries of a model.config
MaxSdfEntries == 3
\* most reads into one SDF object
MaxReads == 2

-----------------------------------------------------------------------------
(* sdf::Element *)

Elem(_name, _attrs, _value, _children) ==
  [name |-> _name, attrs |-> _attrs, value |-> _value, children |-> _children]

NoAttrs == <<>>

\* a null ElementPtr
NullElem == Elem("", NoAttrs, "", <<>>)

IsNull(_elem) == _elem.name = ""

\* Index of the first child of _elem named _name, 0 when there is none.
ChildIndex(_elem, _name) ==
  IF \E i \in 1..Len(_elem.children) : _elem.children[i].name = _name
  THEN CHOOSE i \in 1..Len(_elem.children) :
         /\ _elem.children[i].name = _name
         /\ \A j \in 1..(i - 1) : _elem.children[j].name # _name
  ELSE 0

HasElement(_elem, _name) == ChildIndex(_elem, _name) # 0

\* Element::GetElementImpl / FindElement: the first child of that name, or null
GetElementImpl(_elem, _name) ==
  IF HasElement(_elem, _name) THEN _elem.children[ChildIndex(_elem, _name)]
  ELSE NullElem

GetFirstElement(_elem) ==
  IF Len(_elem.children) = 0 THEN NullElem ELSE _elem.children[1]

\* Element::InsertElement: _child becomes the last child of _elem
InsertElement(_elem, _child) ==
  [_elem EXCEPT !.children = Append(@, _child)]

\* the text of a schema default <pose>
DefaultPoseValue == "0 0 0 0 0 0"

\* Element::AddElement("pose") on an element that has none: the schema's
\* <pose>, relative_to empty, default value
DefaultPose == Elem("pose", [relative_to |-> ""], DefaultPoseValue, <<>>)

\* Element::GetElement: the first child of that name, created from the
\* schema (and appended) when the element has none.  Only used for "pose".
EnsurePose(_elem) ==
  IF HasElement(_elem, "pose") THEN _elem ELSE InsertElement(_elem, DefaultPose)

\* _elem with its first child named _name replaced by _new
ReplaceChild(_elem, _name, _new) ==
  [_elem EXCEPT !.children[ChildIndex(_elem, _name)] = _new]

SetAttribute(_elem, _attr, _val) ==
  [_elem EXCEPT !.attrs = [a \in DOMAIN _elem.attrs |->
                             IF a = _attr THEN _val ELSE _elem.attrs[a]]]

SetValue(_elem, _val) == [_elem EXCEPT !.value = _val]

-----------------------------------------------------------------------------
(* sdf::SDF *)
(*                                                                         *)
(* isNull is a null SDFPtr, hasRoot a Root() that is not null.  The root   *)
(* element keeps what readDoc records on it; lineNumber 0 is an optional   *)
(* without a value.                                                        *)

Sdf(_isNull, _hasRoot, _filePath, _originalVersion, _root) ==
  [isNull |-> _isNull, hasRoot |-> _hasRoot, filePath |-> _filePath,
   originalVersion |-> _originalVersion, root |-> _root]

SdfRoot(_originalVersion, _lineNumber, _xmlPath, _children) ==
  [originalVersion |-> _originalVersion, lineNumber |-> _lineNumber,
   xmlPath |-> _xmlPath, children |-> _children]

\* a null SDFPtr
NullSdf == Sdf(TRUE, FALSE, "", "", SdfRoot("", 0, "", <<>>))

\* new sdf::SDF() after sdf::init
FreshSdf == Sdf(FALSE, TRUE, "", "", SdfRoot("", 0, "", <<>>))

-----------------------------------------------------------------------------
(* sdf::Link and sdf::Material: the fields of their Implementation *)

\* ignition::math::Pose3d::Zero, as the text of a <pose>
PoseZero == "0 0 0 0 0 0"

\* ignition::math::MassMatrix3d: the mass, the diagonal moments and the
\* off-diagonal products
MassMatrix3d(_mass, _xxyyzz, _xyxzyz) ==
  [mass |-> _mass, ixx |-> _xxyyzz[1], iyy |-> _xxyyzz[2], izz |-> _xxyyzz[3],
   ixy |-> _xyxzyz[1], ixz |-> _xyxzyz[2], iyz |-> _xyxzyz[3]]

\* ignition::math::Inertiald
Inertial(_massMatrix, _pose) == [massMatrix |-> _massMatrix, pose |-> _pose]

\* sdf::ScopedGraph<sdf::PoseRelativeToGraph>: the names of its vertices;
\* a graph that was not set has none
ScopedGraph(_vertices) == [vertices |-> _vertices]

NoGraph == ScopedGraph({})

\* a default-constructed sdf::Link
NewLink ==
  [name |-> "", pose |-> PoseZero, poseRelativeTo |-> "",
   visuals |-> <<>>, lights |-> <<>>, collisions |-> <<>>,
   sensors |-> <<>>, emitters |-> <<>>,
   inertial |-> Inertial(MassMatrix3d(1, <<1, 1, 1>>, <<0, 0, 0>>), PoseZero),
   sdf |-> NullElem, enableWind |-> FALSE, poseRelativeToGraph |-> NoGraph]

ShaderTypes ==
  {"PIXEL", "VERTEX", "NORMAL_MAP_OBJECTSPACE", "NORMAL_MAP_TANGENTSPACE"}

DefaultColor == "0 0 0 1"

\* std::optional<Pbr> without a value
NoPbr == [hasValue |-> FALSE, sdf |-> NullElem]

\* a default-constructed sdf::Material
NewMaterial ==
  [scriptUri |-> "", scriptName |-> "", shader |-> "PIXEL", normalMap |-> "",
   lighting |-> TRUE, doubleSided |-> FALSE,
   ambient |-> DefaultColor, diffuse |-> DefaultColor,
   specular |-> DefaultColor, emissive |-> DefaultColor,
   renderOrder |-> 0, pbr |-> NoPbr, sdf |-> NullElem, filePath |-> ""]

-----------------------------------------------------------------------------
(* insertIncludedElement *)

ModelFrame == "__model__"

computeMergedModelProxyFrameName(_modelName) ==
  "_merged__" \o _modelName \o "__model__"

\* setAttributeToProxyFrame that never updates an empty attribute
setAttributeIgnoringEmpty(proxyModelFrameName, _attr, _elem, updateIfEmpty) ==
  IF _elem.attrs[_attr] = ModelFrame
  THEN SetAttribute(_elem, _attr, proxyModelFrameName)
  ELSE _elem

\* setAttributeToProxyFrame that always updates an empty attribute
setAttributeAlsoEmpty(proxyModelFrameName, _attr, _elem, updateIfEmpty) ==
  IF _elem.attrs[_attr] = ModelFrame \/ _elem.attrs[_attr] = ""
  THEN SetAttribute(_elem, _attr, proxyModelFrameName)
  ELSE _elem

\* The lambda of insertIncludedElement, on a non-null _elem: the attribute
\* becomes the proxy frame name when it is "__model__", or when it is empty
\* and updateIfEmpty.
setAttributeToProxyFrame(proxyModelFrameName, _attr, _elem, updateIfEmpty) ==
  IF \/ _elem.attrs[_attr] = ModelFrame
     \/ (updateIfEmpty /\ _elem.attrs[_attr] = "")
  THEN SetAttribute(_elem, _attr, proxyModelFrameName)
  ELSE _elem

\* setAttributeToProxyFrame(_attr, _elem->GetElementImpl(_name), updateIfEmpty)
\* the lambda returns at once on a null element
setChildAttributeToProxyFrame(proxyName, _elem, _name, _attr, ifEmpty) ==
  IF HasElement(_elem, _name)
  THEN ReplaceChild(_elem, _name,
         setAttributeToProxyFrame(proxyName, _attr,
                                  GetElementImpl(_elem, _name), ifEmpty))
  ELSE _elem

\* <parent> and <child> of a joint: the text "__model__" becomes the proxy
\* frame name
setJointLinkToProxyFrame(proxyModelFrameName, _elem, _name) ==
  IF HasElement(_elem, _name)
     /\ GetElementImpl(_elem, _name).value = ModelFrame
  THEN ReplaceChild(_elem, _name,
         SetValue(GetElementImpl(_elem, _name), proxyModelFrameName))
  ELSE _elem

\* setAxisToProxyFrame that only looks at <axis>
setAxisOnlyToProxyFrame(proxyModelFrameName, _elem, _axis) ==
  IF HasElement(_elem, _axis) /\ _axis = "axis"
  THEN ReplaceChild(_elem, _axis,
         setChildAttributeToProxyFrame(proxyModelFrameName,
           GetElementImpl(_elem, _axis), "xyz", "expressed_in", FALSE))
  ELSE _elem

\* <axis> / <axis2> of a joint: expressed_in of its <xyz>
setAxisToProxyFrame(proxyModelFrameName, _elem, _axis) ==
  IF HasElement(_elem, _axis)
  THEN ReplaceChild(_elem, _axis,
         setChildAttributeToProxyFrame(proxyModelFrameName,
           GetElementImpl(_elem, _axis), "xyz", "expressed_in", FALSE))
  ELSE _elem

\* rewriteFrameReferences that also rewrites the poses of the children of a
\* link and of a joint
rewriteFrameReferencesDeep(proxyModelFrameName, elem) ==
  LET nested(e) ==
        [e EXCEPT !.children =
           [i \in 1..Len(e.children) |->
              setChildAttributeToProxyFrame(proxyModelFrameName,
                e.children[i], "pose", "relative_to", FALSE)]]
  IN  IF elem.name = "link" \/ elem.name = "model"
      THEN nested(setChildAttributeToProxyFrame(proxyModelFrameName,
                    EnsurePose(elem), "pose", "relative_to", TRUE))
      ELSE IF elem.name = "frame"
      THEN setChildAttributeToProxyFrame(proxyModelFrameName,
             setAttributeToProxyFrame(proxyModelFrameName, "attached_to",
                                      elem, TRUE),
             "pose", "relative_to", FALSE)
      ELSE IF elem.name = "joint"
      THEN LET j1 == setChildAttributeToProxyFrame(proxyModelFrameName, elem,
                       "pose", "relative_to", FALSE)
               j2 == setJointLinkToProxyFrame(proxyModelFrameName, j1,
                                              "parent")
               j3 == setJointLinkToProxyFrame(proxyModelFrameName, j2,
                                              "child")
               j4 == setAxisToProxyFrame(proxyModelFrameName, j3, "axis")
           IN  nested(setAxisToProxyFrame(proxyModelFrameName, j4, "axis2"))
      ELSE elem

\* What the loop of insertIncludedElement does to one child of the merged
\* model before it decides whether to insert it.
rewriteFrameReferences(proxyModelFrameName, elem) ==
  IF elem.name = "link" \/ elem.name = "model"
  THEN setChildAttributeToProxyFrame(proxyModelFrameName, EnsurePose(elem),
                                     "pose", "relative_to", TRUE)
  ELSE IF elem.name = "frame"
  THEN setChildAttributeToProxyFrame(proxyModelFrameName,
         setAttributeToProxyFrame(proxyModelFrameName, "attached_to", elem,
                                  TRUE),
         "pose", "relative_to", FALSE)
  ELSE IF elem.name = "joint"
  THEN LET j1 == setChildAttributeToProxyFrame(proxyModelFrameName, elem,
                                               "pose", "relative_to", FALSE)
           j2 == setJointLinkToProxyFrame(proxyModelFrameName, j1, "parent")
           j3 == setJointLinkToProxyFrame(proxyModelFrameName, j2, "child")
           j4 == setAxisToProxyFrame(proxyModelFrameName, j3, "axis")
       IN  setAxisToProxyFrame(proxyModelFrameName, j4, "axis2")
  ELSE elem

\* Element names of the model that hold a ':' (std::string::find(':')).
NamespacedNames == {"custom:elem", "experimental:params", "custom:attr"}

ContainsColon(_name) == _name \in NamespacedNames

\* isCopiedToParent that forgets <gripper>
isCopiedToParentNoGripper(_name) ==
  \/ _name = "link" \/ _name = "model"
  \/ _name = "joint" \/ _name = "frame"
  \/ _name = "plugin"
  \/ ContainsColon(_name)

\* Only named and custom elements are copied.
isCopiedToParent(_name) ==
  \/ _name = "link" \/ _name = "model"
  \/ _name = "joint" \/ _name = "frame"
  \/ _name = "gripper" \/ _name = "plugin"
  \/ ContainsColon(_name)

\* The loop over the children of the merged model: the children inserted into
\* the parent, in order.
RECURSIVE hoistedChildren(_, _)
hoistedChildren(proxyModelFrameName, _children) ==
  IF _children = <<>> THEN <<>>
  ELSE LET elem == Head(_children)
           rest == hoistedChildren(proxyModelFrameName, Tail(_children))
       IN  IF isCopiedToParent(elem.name)
           THEN <<rewriteFrameReferences(proxyModelFrameName, elem)>> \o rest
           ELSE rest

\* The pose given to the proxy frame.
proxyModelPose(_model) ==
  IF _model.PlacementFrameName # "" THEN _model.X_RM ELSE _model.RawPose

\* proxyPoseRelativeTo without the default for an empty relative_to
proxyPoseRelativeToAsIs(_model) == _model.PoseRelativeTo

\* The relative_to given to the pose of the proxy frame.
proxyPoseRelativeTo(_model) ==
  IF _model.PoseRelativeTo = "" THEN ModelFrame ELSE _model.PoseRelativeTo

\* The synthetic frame added to the parent.
proxyModelFrame(_model) ==
  Elem("frame",
       [name |-> computeMergedModelProxyFrameName(_model.Name),
        attached_to |-> _model.CanonicalLink],
       "",
       <<Elem("pose", [relative_to |-> proxyPoseRelativeTo(_model)],
              proxyModelPose(_model), <<>>)>>)

\* mergeUnsupported without the check of the parent element
mergeUnsupportedAnyParent(firstElem, _parent) ==
  IF firstElem.name # "model" THEN "MERGE_INCLUDE_UNSUPPORTED" ELSE ""

\* The checks that reject a merge-include before the DOM is loaded: "" when
\* none applies, else the error code.
mergeUnsupported(firstElem, _parent) ==
  IF firstElem.name # "model" THEN "MERGE_INCLUDE_UNSUPPORTED"
  ELSE IF _parent.name # "model" THEN "MERGE_INCLUDE_UNSUPPORTED"
  ELSE ""

\* insertIncludedElement.  _includeSDF.root is the root element of the
\* included file; _dom is what sdf::Root::Load makes of it.  The result is
\* the parent and the error list after the call.
insertIncludedElement(_includeSDF, _merge, _parent, _dom, _errors) ==
  LET rootElem  == _includeSDF.root
      firstElem == GetFirstElement(rootElem)
      loaded    == _errors \o _dom.loadErrors
      model     == _dom.model
      proxyModelFrameName == computeMergedModelProxyFrameName(model.Name)
      resolved  == IF model.PlacementFrameName # ""
                   THEN loaded \o model.resolveErrors ELSE loaded
  IN  IF IsNull(rootElem) \/ IsNull(firstElem)
      THEN [parent |-> _parent, errors |-> Append(_errors, "FILE_READ")]
      ELSE IF ~_merge
      THEN [parent |-> InsertElement(_parent, firstElem), errors |-> _errors]
      ELSE IF mergeUnsupported(firstElem, _parent) # ""
      THEN [parent |-> _parent,
            errors |-> Append(_errors, mergeUnsupported(firstElem, _parent))]
      ELSE IF ~_dom.hasModel
      THEN [parent |-> _parent,
            errors |-> Append(loaded, "MERGE_INCLUDE_UNSUPPORTED")]
      ELSE [parent |->
              [_parent EXCEPT !.children =
                 @ \o <<proxyModelFrame(model)>>
                   \o hoistedChildren(proxyModelFrameName, firstElem.children)],
            errors |-> resolved]

-----------------------------------------------------------------------------
(* The inputs of insertIncludedElement: element trees as readXml builds them *)

\* values of an attribute that names a frame
Refs == {"", "__model__", "F1"}

Pose(_relativeTo) ==
  Elem("pose", [relative_to |-> _relativeTo], "1 2 3 0 0 0", <<>>)

\* an element has no <pose> or one <pose>
PoseOpts == {<<>>} \cup {<<Pose(r)>> : r \in Refs}

Xyz(_expressedIn) ==
  Elem("xyz", [expressed_in |-> _expressedIn], "0 0 1", <<>>)

\* a joint has no <axis> or one; an <axis> always has its required <xyz>
AxisOpts(_axis) ==
  {<<>>} \cup {<<Elem(_axis, NoAttrs, "", <<Xyz(r)>>)>> : r \in Refs}

\* a <visual>, <collision> or <sensor> with a pose relative to __model__
NestedPosed(_name) ==
  Elem(_name, [name |-> "N"], "", <<Pose("__model__")>>)

\* links whose children have a pose of their own
NestedPoseLinks ==
  {Elem("link", [name |-> "L"], "", p \o <<NestedPosed(n)>>) :
     p \in {<<>>, <<Pose("__model__")>>}, n \in {"visual", "collision"}}

LinkElems ==
  {Elem("link", [name |-> "L"], "", p) : p \in PoseOpts}
  \cup NestedPoseLinks

NestedModelElems ==
  {Elem("model", [name |-> "M2", placement_frame |-> ""], "", p) :
     p \in PoseOpts}

FrameElems ==
  {Elem("frame", [name |-> "F1", attached_to |-> a], "", p) :
     a \in Refs, p \in PoseOpts}

Joint(_parentLink, _childLink, _pose, _axis, _axis2) ==
  Elem("joint", [name |-> "J", type |-> "revolute"], "",
       <<Elem("parent", NoAttrs, _parentLink, <<>>),
         Elem("child", NoAttrs, _childLink, <<>>)>>
       \o _pose \o _axis \o _axis2)

JointLinks == {"__model__", "L"}

JointElems ==
  {Joint(p, c, r, a, b) : p \in JointLinks, c \in JointLinks,
                          r \in PoseOpts, a \in AxisOpts("axis"),
                          b \in AxisOpts("axis2")}

\* two of the joints, for the lists that mix the kinds of children
SomeJoints ==
  {Joint("__model__", "__model__", <<Pose("__model__")>>,
         <<Elem("axis", NoAttrs, "", <<Xyz("__model__")>>)>>,
         <<Elem("axis2", NoAttrs, "", <<Xyz("__model__")>>)>>),
   Joint("L", "__model__", <<>>,
         <<Elem("axis", NoAttrs, "", <<Xyz("")>>)>>, <<>>),
   Joint("L", "__model__", <<Pose("__model__")>>, <<NestedPosed("sensor")>>,
         <<>>)}

\* children of a model that are not links, models, frames or joints
OtherElems ==
  {Elem("static", NoAttrs, "true", <<>>),
   Elem("self_collide", NoAttrs, "true", <<>>),
   Elem("enable_wind", NoAttrs, "true", <<>>),
   Pose("F0"),
   Elem("gripper", [name |-> "G"], "", <<>>),
   Elem("plugin", [name |-> "P", filename |-> "p.so"], "", <<>>),
   Elem("custom:elem", NoAttrs, "x", <<>>)}

ChildElems ==
  LinkElems \cup NestedModelElems \cup FrameElems \cup SomeJoints
  \cup OtherElems

Model(_name, _placementFrame, _children) ==
  Elem("model", [name |-> _name, placement_frame |-> _placementFrame], "",
       _children)

\* the root element <sdf> of a file
Root(_children) == Elem("sdf", [version |-> "1.9"], "", _children)

\* top-level entities of an included file
TopModels ==
  {Model(n, pf, c) : n \in {"M", "N"}, pf \in {"", "F1"},
                     c \in {<<Elem("link", [name |-> "L"], "", <<>>)>>,
                            <<Pose("F0"),
                              Elem("static", NoAttrs, "true", <<>>),
                              Elem("link", [name |-> "L"], "", <<>>)>>}}

TopOthers ==
  {Elem("light", [name |-> "sun"], "", <<>>),
   Elem("actor", [name |-> "A"], "", <<>>),
   Elem("world", [name |-> "W"], "", <<>>)}

\* sdf::Root::Load of the included file, as far as insertIncludedElement
\* reads it: whether Root::Model() is non-null, the errors of the load, and
\* the getters of the model.  Name, pose and placement frame are those of the
\* first <model> of the file; the canonical link and the resolved pose are
\* the DOM's.
NullModel ==
  [Name |-> "", CanonicalLink |-> "", RawPose |-> "", PlacementFrameName |-> "",
   X_RM |-> "", resolveErrors |-> <<>>, PoseRelativeTo |-> ""]

ResolvedPose == "4 0 0 0 0 0"

LoadedModels(_elem, _canonicalLinks) ==
  LET pose == GetElementImpl(_elem, "pose")
      raw  == IF IsNull(pose) THEN DefaultPoseValue ELSE pose.value
      rel  == IF IsNull(pose) THEN "" ELSE pose.attrs.relative_to
      res  == IF _elem.attrs.placement_frame = ""
              THEN {<<raw, <<>>>>}
              ELSE {<<ResolvedPose, <<>>>>,
                    <<raw, <<"POSE_RELATIVE_TO_INVALID">>>>}
  IN  {[Name |-> _elem.attrs.name, CanonicalLink |-> cl, RawPose |-> raw,
        PlacementFrameName |-> _elem.attrs.placement_frame,
        X_RM |-> r[1], resolveErrors |-> r[2], PoseRelativeTo |-> rel] :
         cl \in _canonicalLinks, r \in res}

DomResults(_root, _canonicalLinks, _loadErrors) ==
  {[hasModel |-> FALSE, loadErrors |-> e, model |-> NullModel] :
     e \in _loadErrors}
  \cup
  (IF HasElement(_root, "model")
   THEN {[hasModel |-> TRUE, loadErrors |-> e, model |-> m] :
           e \in _loadErrors,
           m \in LoadedModels(GetElementImpl(_root, "model"), _canonicalLinks)}
   ELSE {})

DomErrors == {<<>>, <<"FRAME_ATTACHED_TO_INVALID">>}

Input(_root, _merge, _dom) ==
  [includeSDF |-> [root |-> _root], merge |-> _merge, dom |-> _dom]

\* a model named "M" with the children _c, merged, its DOM loaded
MergedModelInputs(_c) ==
  {Input(Root(<<Model("M", "", _c)>>), TRUE, d) :
     d \in {x \in DomResults(Root(<<Model("M", "", _c)>>), {"L"}, {<<>>}) :
              x.hasModel}}

\* every top-level entity first, alone or followed by another, merged or not,
\* with every outcome of the DOM load
TopRoots ==
  {Root(<<f>>) : f \in TopModels \cup TopOthers}
  \cup {Root(<<f, g>>) : f \in TopOthers,
                         g \in {Model("M", "", <<Elem("link", [name |-> "L"],
                                                       "", <<>>)>>)}}

TopInputs ==
  UNION {{Input(r, m, d) : m \in BOOLEAN,
                           d \in DomResults(r, {"L", "M2::L"}, DomErrors)} :
           r \in TopRoots}

\* the elements that hold the <include>
InitParents ==
  {Elem("model", [name |-> "parent", placement_frame |-> ""], "",
        <<Elem("link", [name |-> "base"], "", <<>>)>>),
   Elem("world", [name |-> "W"], "", <<>>)}

InitErrors == {<<>>, <<"ELEMENT_DEPRECATED">>}

NoCall == [op |-> "none"]

-----------------------------------------------------------------------------
(* The specification of insertIncludedElement *)

Init ==
  /\ parent \in InitParents
  /\ errors \in InitErrors
  /\ ret = "none"
  /\ call = NoCall
  /\ sdf = NullSdf
  /\ link = NewLink
  /\ material = NewMaterial

\* No call was made yet: every operation is called on the initial state.
Idle == call.op = "none"

\* One call of insertIncludedElement.
InsertIncluded(in) ==
  LET r == insertIncludedElement(in.includeSDF, in.merge, parent, in.dom,
                                 errors)
  IN  /\ parent' = r.parent
      /\ errors' = r.errors
      /\ ret' = "void"
      /\ sdf' = sdf
      /\ UNCHANGED <<link, material>>
      /\ call' = [op |-> "insertIncludedElement",
                     includeSDF |-> in.includeSDF, merge |-> in.merge,
                     dom |-> in.dom, parent |-> parent, errors |-> errors]

\* merge-include of a model with every list of children
MergeChildren ==
  /\ Idle
  /\ \E k \in 0..MaxChildren : \E c \in [1..k -> ChildElems] :
       \E in \in MergedModelInputs(c) : InsertIncluded(in)

\* merge-include of a model with every list of joints
MergeJoints ==
  /\ Idle
  /\ \E k \in 0..MaxJoints : \E c \in [1..k -> JointElems] :
       \E in \in MergedModelInputs(c) : InsertIncluded(in)

\* include of every top-level entity, merged or not
InsertTop == Idle /\ \E in \in TopInputs : InsertIncluded(in)

Next == MergeChildren \/ MergeJoints \/ InsertTop

Spec == Init /\ [][Next]_vars

-----------------------------------------------------------------------------
(* Claims about insertIncludedElement *)

Called == call.op = "insertIncludedElement"

\* the first top-level element of the included file
IncludedFirst == GetFirstElement(call.includeSDF.root)

\* a merge-include in one of the three unsupported cases
MergeRejected ==
  /\ Called /\ call.merge
  /\ \/ IncludedFirst.name # "model"
     \/ call.parent.name # "model"
     \/ ~call.dom.hasModel

\* a merge-include in none of them
MergeDone == Called /\ call.merge /\ ~MergeRejected

\* the errors appended by the call
NewErrors == SubSeq(errors, Len(call.errors) + 1, Len(errors))

\* the children appended to the parent by the call
NewChildren ==
  SubSeq(parent.children, Len(call.parent.children) + 1, Len(parent.children))

\* the caller's errors and the parent's children before the call are kept
OnlyAppends ==
  /\ Len(errors) >= Len(call.errors)
  /\ SubSeq(errors, 1, Len(call.errors)) = call.errors
  /\ Len(parent.children) >= Len(call.parent.children)
  /\ SubSeq(parent.children, 1, Len(call.parent.children))
       = call.parent.children
  /\ parent.name = call.parent.name /\ parent.attrs = call.parent.attrs

MergedName == computeMergedModelProxyFrameName(call.dom.model.Name)

\* the kinds of children the spec says are hoisted
HoistedKind(_elem) ==
  \/ _elem.name \in {"link", "model", "joint", "frame", "gripper", "plugin"}
  \/ ContainsColon(_elem.name)

\* the children of the merged model that are hoisted, as they were
HoistedBefore == SelectSeq(IncludedFirst.children, HoistedKind)

\* the same children as they are in the parent: those after the proxy frame
HoistedAfter == Tail(NewChildren)

RelativeTo(_elem) == GetElementImpl(_elem, "pose").attrs.relative_to

ExpressedIn(_elem, _axis) ==
  GetElementImpl(GetElementImpl(_elem, _axis), "xyz").attrs.expressed_in

\* what the spec says a reference becomes
Rewritten(_before, _alsoEmpty) ==
  IF _before = "__model__" \/ (_alsoEmpty /\ _before = "")
  THEN MergedName ELSE _before

\* C1: a merge-include whose first top-level element is not a model, or whose
\* parent is not a model, or whose model does not load into the DOM, appends
\* MERGE_INCLUDE_UNSUPPORTED as its last error and leaves the parent element
\* as it was.
C1_MergeRejectedLeavesParent ==
  MergeRejected =>
    /\ parent = call.parent
    /\ OnlyAppends
    /\ NewErrors # <<>>
    /\ NewErrors[Len(NewErrors)] = "MERGE_INCLUDE_UNSUPPORTED"
    /\ Cardinality({i \in 1..Len(NewErrors) :
                      NewErrors[i] = "MERGE_INCLUDE_UNSUPPORTED"}) = 1

C1_Witness ==
  /\ MergeRejected
  /\ IncludedFirst.name = "model" /\ call.parent.name = "model"
  /\ ~call.dom.hasModel
  /\ call.dom.loadErrors # <<>>

\* C2: a successful merge-include of a model named N adds one frame named
\* _merged__N__model__ to the parent, right after the children the parent
\* had; the frame is attached to the canonical link of the model; its pose is
\* the raw pose of the model, or the resolved pose when the model has a
\* placement frame; the relative_to of its pose is that of the model, or
\* __model__ when that is empty.
C2_ProxyFrame ==
  MergeDone =>
    LET m == call.dom.model
        f == Head(NewChildren)
        p == GetElementImpl(f, "pose")
    IN  /\ OnlyAppends
        /\ NewChildren # <<>>
        /\ f.name = "frame"
        /\ f.attrs.name = "_merged__" \o m.Name \o "__model__"
        /\ Cardinality({i \in 1..Len(parent.children) :
              /\ parent.children[i].name = "frame"
              /\ parent.children[i].attrs.name = f.attrs.name}) = 1
        /\ f.attrs.attached_to = m.CanonicalLink
        /\ Len(f.children) = 1 /\ ~IsNull(p)
        /\ p.value = (IF m.PlacementFrameName = "" THEN m.RawPose ELSE m.X_RM)
        /\ p.attrs.relative_to =
             (IF m.PoseRelativeTo = "" THEN "__model__" ELSE m.PoseRelativeTo)

C2_Witness ==
  /\ MergeDone
  /\ call.dom.model.Name = "N"
  /\ call.dom.model.PlacementFrameName # ""
  /\ call.dom.model.X_RM # call.dom.model.RawPose
  /\ call.dom.model.PoseRelativeTo = ""
  /\ GetElementImpl(Head(NewChildren), "pose").attrs.relative_to = "__model__"

\* C3: every hoisted link and nested model has a pose after the merge, and
\* its relative_to is the name of the proxy frame when it was __model__ or
\* empty before (or the child had no pose) and is what it was otherwise.
C3_LinkPoseRewritten ==
  MergeDone =>
    /\ Len(HoistedAfter) = Len(HoistedBefore)
    /\ \A i \in 1..Len(HoistedBefore) :
         LET b == HoistedBefore[i]
             a == HoistedAfter[i]
         IN  b.name \in {"link", "model"} =>
               /\ a.name = b.name /\ a.attrs = b.attrs
               /\ HasElement(a, "pose")
               /\ RelativeTo(a) =
                    (IF HasElement(b, "pose")
                     THEN Rewritten(RelativeTo(b), TRUE) ELSE MergedName)

C3_Witness ==
  /\ MergeDone
  /\ \E i \in 1..Len(HoistedBefore) :
       /\ HoistedBefore[i].name = "link"
       /\ ~HasElement(HoistedBefore[i], "pose")
       /\ RelativeTo(HoistedAfter[i]) = MergedName
  /\ \E i \in 1..Len(HoistedBefore) :
       /\ HoistedBefore[i].name = "model"
       /\ HasElement(HoistedBefore[i], "pose")
       /\ RelativeTo(HoistedBefore[i]) = "F1"
       /\ RelativeTo(HoistedAfter[i]) = "F1"

\* C4: every hoisted frame has attached_to the name of the proxy frame when
\* it was __model__ or empty before and what it was otherwise; the
\* relative_to of its pose is the name of the proxy frame only when it was
\* __model__, an empty one stays empty, and a frame without a pose gets none.
C4_FrameRewritten ==
  MergeDone =>
    /\ Len(HoistedAfter) = Len(HoistedBefore)
    /\ \A i \in 1..Len(HoistedBefore) :
         LET b == HoistedBefore[i]
             a == HoistedAfter[i]
         IN  b.name = "frame" =>
               /\ a.name = "frame" /\ a.attrs.name = b.attrs.name
               /\ a.attrs.attached_to = Rewritten(b.attrs.attached_to, TRUE)
               /\ HasElement(a, "pose") = HasElement(b, "pose")
               /\ HasElement(b, "pose") =>
                    RelativeTo(a) = Rewritten(RelativeTo(b), FALSE)

C4_Witness ==
  /\ MergeDone
  /\ \E i \in 1..Len(HoistedBefore) :
       /\ HoistedBefore[i].name = "frame"
       /\ HoistedBefore[i].attrs.attached_to = ""
       /\ HasElement(HoistedBefore[i], "pose")
       /\ RelativeTo(HoistedBefore[i]) = ""
       /\ HoistedAfter[i].attrs.attached_to = MergedName
       /\ RelativeTo(HoistedAfter[i]) = ""

\* the five references of a joint, "-" where the joint has no such element
JointRefs(_elem) ==
  <<GetElementImpl(_elem, "parent").value,
    GetElementImpl(_elem, "child").value,
    IF HasElement(_elem, "pose") THEN RelativeTo(_elem) ELSE "-",
    IF HasElement(_elem, "axis") THEN ExpressedIn(_elem, "axis") ELSE "-",
    IF HasElement(_elem, "axis2") THEN ExpressedIn(_elem, "axis2") ELSE "-">>

\* C5: in every hoisted joint each of parent, child, pose relative_to,
\* axis/xyz expressed_in and axis2/xyz expressed_in that was __model__ is the
\* name of the proxy frame, and each that was empty, absent or another name
\* is what it was; so none of them is __model__ after the merge.
C5_JointRewritten ==
  MergeDone =>
    /\ Len(HoistedAfter) = Len(HoistedBefore)
    /\ \A i \in 1..Len(HoistedBefore) :
         LET b == HoistedBefore[i]
             a == HoistedAfter[i]
         IN  b.name = "joint" =>
               /\ a.name = "joint" /\ a.attrs = b.attrs
               /\ Len(a.children) = Len(b.children)
               /\ \A k \in 1..5 :
                    /\ JointRefs(a)[k] = Rewritten(JointRefs(b)[k], FALSE)
                    /\ JointRefs(a)[k] # "__model__"

C5_Witness ==
  /\ MergeDone
  /\ \E i \in 1..Len(HoistedBefore) :
       /\ HoistedBefore[i].name = "joint"
       /\ JointRefs(HoistedBefore[i]) =
            <<"__model__", "L", "", "F1", "__model__">>
       /\ JointRefs(HoistedAfter[i]) =
            <<MergedName, "L", "", "F1", MergedName>>

\* the errors a successful merge takes from the DOM
DomErrorsOfCall ==
  call.dom.loadErrors
  \o (IF call.dom.model.PlacementFrameName # ""
      THEN call.dom.model.resolveErrors ELSE <<>>)

\* C6: after the proxy frame, a merge-include inserts into the parent the
\* children of the merged model named link, model, joint, frame, gripper or
\* plugin, or with a ':' in the name, in their order, and no other child;
\* a child that is not inserted adds no error.
C6_OnlyNamedKindsHoisted ==
  MergeDone =>
    /\ OnlyAppends
    /\ Len(NewChildren) = 1 + Len(HoistedBefore)
    /\ \A i \in 1..Len(HoistedBefore) :
         /\ HoistedAfter[i].name = HoistedBefore[i].name
         /\ IF HoistedBefore[i].name \in {"link", "model", "joint", "frame"}
            THEN HoistedAfter[i].attrs.name = HoistedBefore[i].attrs.name
            ELSE HoistedAfter[i] = HoistedBefore[i]
    /\ NewErrors = DomErrorsOfCall

C6_Witness ==
  /\ MergeDone
  /\ Len(IncludedFirst.children) = 2
  /\ IncludedFirst.children[1].name = "static"
  /\ IncludedFirst.children[2].name = "gripper"
  /\ Len(NewChildren) = 2
  /\ NewChildren[2].name = "gripper"
  /\ NewErrors = <<>>

-----------------------------------------------------------------------------
(* readXml: one <include> child of the element being read *)
(*                                                                         *)
(* A tinyxml2 element is an Elem too: attrs holds the attributes the XML   *)
(* gives (Attribute() is null for the others), value the text ("" when     *)
(* GetText() is null), children the child elements in document order.      *)

HasAttribute(_xml, _attr) == _attr \in DOMAIN _xml.attrs

\* sdf::isValidFrameReference, on the frame names of the model
InvalidFrameReferences == {"__root__"}

isValidFrameReference(_name) == _name \notin InvalidFrameReferences

\* isSdfFile: the extension is .sdf or .world, on the file names of the model
SdfFileNames == {"m.sdf", "dir/model.sdf"}

isSdfFile(_fileName) == _fileName \in SdfFileNames

\* resolveFileNameFromUri that does not test the model file path of a
\* directory
resolveFileNameFromUriAnyDirectory(_includeXml, _lookup, _errors) ==
  IF HasElement(_includeXml, "uri")
  THEN IF _lookup.modelPath = ""
       THEN [ok |-> FALSE, fileName |-> "",
             errors |-> Append(_errors, "URI_LOOKUP")]
       ELSE IF _lookup.isDirectory
       THEN [ok |-> TRUE, fileName |-> _lookup.modelFilePath,
             errors |-> _errors]
       ELSE [ok |-> TRUE, fileName |-> _lookup.modelPath, errors |-> _errors]
  ELSE [ok |-> FALSE, fileName |-> "",
        errors |-> Append(_errors, "ATTRIBUTE_MISSING")]

\* resolveFileNameFromUri.  _lookup is what the file system answers:
\* modelPath is the result of sdf::findFile ("" when not found), isDirectory
\* whether it is a directory, modelFilePath the result of getModelFilePath.
resolveFileNameFromUri(_includeXml, _lookup, _errors) ==
  IF HasElement(_includeXml, "uri")
  THEN IF _lookup.modelPath = ""
       THEN [ok |-> FALSE, fileName |-> "",
             errors |-> Append(_errors, "URI_LOOKUP")]
       ELSE IF _lookup.isDirectory
       THEN IF _lookup.modelFilePath = ""
            THEN [ok |-> FALSE, fileName |-> "",
                  errors |-> Append(_errors, "URI_LOOKUP")]
            ELSE [ok |-> TRUE, fileName |-> _lookup.modelFilePath,
                  errors |-> _errors]
       ELSE [ok |-> TRUE, fileName |-> _lookup.modelPath, errors |-> _errors]
  ELSE [ok |-> FALSE, fileName |-> "",
        errors |-> Append(_errors, "ATTRIBUTE_MISSING")]

\* validateIncludeElement: readXml on a clone of the description of
\* <include>; _read is the outcome of that readXml.
validateIncludeElement(_read, _errors) ==
  IF _read.ok THEN _errors \o _read.errors
  ELSE Append(_errors \o _read.errors, "ELEMENT_INVALID")

TopLevelTypes == <<"model", "actor", "light">>

\* The first of model, actor, light that the root of the included file has,
\* "" when it has none.
topLevelElementType(_root) ==
  IF HasElement(_root, "model") THEN "model"
  ELSE IF HasElement(_root, "actor") THEN "actor"
  ELSE IF HasElement(_root, "light") THEN "light"
  ELSE ""

\* The errors of the loop over model, actor, light: one for each type the
\* root has besides the chosen one.
otherTopLevelErrors(_root) ==
  LET chosen == topLevelElementType(_root)
      err(t) == IF t # chosen /\ HasElement(_root, t)
                THEN <<"ELEMENT_INCORRECT_TYPE">> ELSE <<>>
  IN  err("model") \o err("actor") \o err("light")

\* topLevelElem->GetNextElement(topLevelElementType) is not null
hasNextOfType(_root, _type) ==
  Cardinality({i \in 1..Len(_root.children) :
                 _root.children[i].name = _type}) > 1

\* The <name> override.
overrideName(_topLevelElem, _includeXml) ==
  IF HasElement(_includeXml, "name")
  THEN SetAttribute(_topLevelElem, "name",
                    GetElementImpl(_includeXml, "name").value)
  ELSE _topLevelElem

PoseAttributes == {"relative_to", "degrees", "rotation_format"}

\* The defaults the description of <pose> gives the three attributes: what
\* Param::Reset leaves in them.
PoseAttributeDefault(_attribName) ==
  IF _attribName = "degrees" THEN "false"
  ELSE IF _attribName = "rotation_format" THEN "euler_rpy"
  ELSE ""

\* setAttribute that keeps the attribute of the included file when the XML
\* does not have it
overridePoseAttributeRetained(_poseElem, _poseElemXml, _attribName) ==
  IF HasAttribute(_poseElemXml, _attribName)
  THEN _poseElemXml.attrs[_attribName]
  ELSE IF HasAttribute(_poseElem, _attribName)
  THEN _poseElem.attrs[_attribName]
  ELSE PoseAttributeDefault(_attribName)

\* setAttribute of the <pose> override: the value the attribute gets, that of
\* the XML when the XML has it and its default otherwise.  The description
\* of <pose> declares the three attributes, so the pose element has the
\* parameter of each.
overridePoseAttribute(_poseElem, _poseElemXml, _attribName) ==
  IF HasAttribute(_poseElemXml, _attribName)
  THEN _poseElemXml.attrs[_attribName]
  ELSE PoseAttributeDefault(_attribName)

\* The <pose> override: setAttribute on each of the three attributes the
\* pose element has, then the value.
overridePose(_topLevelElem, _includeXml) ==
  IF HasElement(_includeXml, "pose")
  THEN LET poseElemXml == GetElementImpl(_includeXml, "pose")
           withPose == EnsurePose(_topLevelElem)
           poseElem == GetElementImpl(withPose, "pose")
       IN  ReplaceChild(withPose, "pose",
             Elem("pose",
                  [a \in DOMAIN poseElem.attrs \cup PoseAttributes |->
                     IF a \in PoseAttributes
                     THEN overridePoseAttribute(poseElem, poseElemXml, a)
                     ELSE poseElem.attrs[a]],
                  IF poseElemXml.value # "" THEN poseElemXml.value
                  ELSE DefaultPoseValue,
                  poseElem.children))
  ELSE _topLevelElem

\* The <static> override, of a model.
overrideStatic(_topLevelElem, _includeXml) ==
  IF _topLevelElem.name = "model" /\ HasElement(_includeXml, "static")
  THEN LET withStatic ==
             IF HasElement(_topLevelElem, "static") THEN _topLevelElem
             ELSE InsertElement(_topLevelElem,
                                Elem("static", NoAttrs, "false", <<>>))
       IN  ReplaceChild(withStatic, "static",
             SetValue(GetElementImpl(withStatic, "static"),
                      GetElementImpl(_includeXml, "static").value))
  ELSE _topLevelElem

\* overridePlacementFrame that appends the error for the lack of a <pose> and
\* goes on
overridePlacementFrameNoReturn(_topLevelElem, _includeXml, _errors) ==
  IF _topLevelElem.name = "model" /\ HasElement(_includeXml, "placement_frame")
  THEN LET val == GetElementImpl(_includeXml, "placement_frame").value
       IN  IF ~HasElement(_includeXml, "pose")
           THEN [exit |-> "", elem |-> _topLevelElem,
                 errors |-> Append(_errors, "MODEL_PLACEMENT_FRAME_INVALID")]
           ELSE [exit |-> "",
                 elem |-> SetAttribute(_topLevelElem, "placement_frame", val),
                 errors |-> IF isValidFrameReference(val) THEN _errors
                            ELSE Append(_errors, "RESERVED_NAME")]
  ELSE [exit |-> "", elem |-> _topLevelElem, errors |-> _errors]

\* The <placement_frame> override, of a model: "false" when readXml returns
\* false for the lack of a <pose>.
overridePlacementFrame(_topLevelElem, _includeXml, _errors) ==
  IF _topLevelElem.name = "model" /\ HasElement(_includeXml, "placement_frame")
  THEN LET val == GetElementImpl(_includeXml, "placement_frame").value
       IN  IF ~HasElement(_includeXml, "pose")
           THEN [exit |-> "false", elem |-> _topLevelElem,
                 errors |-> Append(_errors, "MODEL_PLACEMENT_FRAME_INVALID")]
           ELSE [exit |-> "",
                 elem |-> SetAttribute(_topLevelElem, "placement_frame", val),
                 errors |-> IF isValidFrameReference(val) THEN _errors
                            ELSE Append(_errors, "RESERVED_NAME")]
  ELSE [exit |-> "", elem |-> _topLevelElem, errors |-> _errors]

\* readXml of a <plugin> of the include: name and filename are required
\* attributes of the schema.
pluginReads(_pluginXml) ==
  HasAttribute(_pluginXml, "name") /\ HasAttribute(_pluginXml, "filename")

\* The <plugin> children of the include, appended to a model or an actor.
RECURSIVE appendPlugins(_, _, _)
appendPlugins(_topLevelElem, _xmlChildren, _errors) ==
  IF _xmlChildren = <<>>
  THEN [exit |-> "", elem |-> _topLevelElem, errors |-> _errors]
  ELSE LET childElemXml == Head(_xmlChildren)
       IN  IF childElemXml.name # "plugin"
           THEN appendPlugins(_topLevelElem, Tail(_xmlChildren), _errors)
           ELSE IF pluginReads(childElemXml)
           THEN appendPlugins(InsertElement(_topLevelElem, childElemXml),
                              Tail(_xmlChildren), _errors)
           ELSE [exit |-> "false", elem |-> _topLevelElem,
                 errors |-> _errors \o <<"ATTRIBUTE_MISSING",
                                         "ELEMENT_INVALID">>]

\* The overrides of the include, applied to the top-level element one after
\* the other, each to the element the one before it leaves.
overriddenTopLevel(_topLevelElem, _includeXml, _errors) ==
  CHOOSE r \in
    {IF pf.exit # "" THEN pf
     ELSE IF pf.elem.name \in {"model", "actor"}
     THEN appendPlugins(pf.elem, _includeXml.children, pf.errors)
     ELSE pf :
       pf \in {overridePlacementFrame(t3, _includeXml, _errors) :
         t3 \in {overrideStatic(t2, _includeXml) :
           t2 \in {overridePose(t1, _includeXml) :
             t1 \in {overrideName(_topLevelElem, _includeXml)}}}}} : TRUE

\* readXml from the read of the included file to the call of
\* insertIncludedElement.  _file is what readFile makes of the file: ok,
\* the errors it appends, and the root element it fills.  exit is "" when
\* insertIncludedElement is to be called on root, "continue" when the loop
\* goes on to the next child, "false" when readXml returns false.
includedTree(_includeXml, _file, _errors) ==
  LET read == _errors \o _file.errors
      root == _file.root
      type == topLevelElementType(root)
      e1   == read \o otherTopLevelErrors(root)
      e2   == IF hasNextOfType(root, type)
              THEN Append(e1, "ELEMENT_INCORRECT_TYPE") ELSE e1
      over == overriddenTopLevel(GetElementImpl(root, type), _includeXml, e2)
  IN  IF ~_file.ok
      THEN [exit |-> "false", root |-> root,
            errors |-> Append(read, "FILE_READ")]
      ELSE IF type = ""
      THEN [exit |-> "continue", root |-> root,
            errors |-> Append(e1, "ELEMENT_MISSING")]
      ELSE [exit |-> over.exit, root |-> ReplaceChild(root, type, over.elem),
            errors |-> over.errors]

\* elemXml->BoolAttribute("merge", false)
toMerge(_includeXml) ==
  HasAttribute(_includeXml, "merge") /\ _includeXml.attrs.merge = "true"

\* The part of readXml that handles one <include> child, elemXml, of the
\* element _sdf.  _env is what the configuration and the file system
\* answer; _dom is sdf::Root::Load of the included file.  ret is "continue"
\* when readXml goes on to the next child, "false" when it returns false.
readXmlInclude(_includeXml, _env, _sdf, _dom, _errors) ==
  LET e0  == validateIncludeElement(_env.read, _errors)
      uri == resolveFileNameFromUri(_includeXml, _env.lookup, e0)
      t   == includedTree(_includeXml, _env.file, uri.errors)
      ins == insertIncludedElement([root |-> t.root], toMerge(_includeXml),
                                   _sdf, _dom, t.errors)
  IN  IF ~uri.ok
      THEN [parent |-> _sdf, errors |-> uri.errors, ret |-> "continue"]
      ELSE IF isSdfFile(uri.fileName) \/ ~_env.customModelParsers
      THEN IF t.exit # ""
           THEN [parent |-> _sdf, errors |-> t.errors, ret |-> t.exit]
           ELSE [parent |-> ins.parent, errors |-> ins.errors,
                 ret |-> "continue"]
      \* the file is left to a custom parser: <include> is read as any child
      ELSE IF _env.read.ok
      THEN [parent |-> InsertElement(_sdf, _includeXml),
            errors |-> uri.errors \o _env.read.errors, ret |-> "continue"]
      ELSE [parent |-> _sdf,
            errors |-> Append(uri.errors \o _env.read.errors,
                              "ELEMENT_INVALID"),
            ret |-> "false"]

-----------------------------------------------------------------------------
(* The inputs of readXml for an <include> *)

XmlText(_name, _text) == Elem(_name, NoAttrs, _text, <<>>)

UriXml == XmlText("uri", "model://m")

NameXmlOpts == {<<>>, <<XmlText("name", "X")>>}

PoseXmlOpts ==
  {<<>>,
   <<Elem("pose", [relative_to |-> "F0"], "5 0 0 0 0 0", <<>>)>>,
   <<Elem("pose", [degrees |-> "true"], "5 0 0 90 0 0", <<>>)>>,
   <<Elem("pose", [rotation_format |-> "quat_xyzw"], "5 0 0 0 0 0 1", <<>>)>>,
   <<Elem("pose", NoAttrs, "", <<>>)>>}

StaticXmlOpts == {<<>>, <<XmlText("static", "true")>>}

PlacementXmlOpts ==
  {<<>>, <<XmlText("placement_frame", "F1")>>,
   <<XmlText("placement_frame", "__root__")>>}

PluginXmlOpts ==
  {<<>>,
   <<Elem("plugin", [name |-> "P", filename |-> "p.so"], "", <<>>)>>,
   <<Elem("plugin", [name |-> "P"], "", <<>>)>>}

MergeAttrOpts == {NoAttrs, [merge |-> "true"]}

\* <include> elements with a <uri> and every combination of overrides
OverrideXmls ==
  {Elem("include", m, "", <<UriXml>> \o n \o p \o s \o f \o g) :
     m \in MergeAttrOpts, n \in NameXmlOpts, p \in PoseXmlOpts,
     s \in StaticXmlOpts, f \in PlacementXmlOpts, g \in PluginXmlOpts}

\* <include> elements with and without <uri>
PlainXmls ==
  {Elem("include", m, "", u \o n) :
     m \in MergeAttrOpts, u \in {<<>>, <<UriXml>>}, n \in NameXmlOpts}

\* the top-level entities of the included files
FileEntities ==
  {Model("M", "",
         <<Elem("pose", [relative_to |-> "W0", degrees |-> "true",
                         rotation_format |-> "euler_rpy"],
                "1 2 3 0 0 90", <<>>),
           Elem("link", [name |-> "L"], "", <<>>)>>),
   Elem("actor", [name |-> "A"], "",
        <<Elem("pose", [relative_to |-> "", degrees |-> "false",
                        rotation_format |-> "quat_xyzw"],
               "1 2 3 0 0 0 1", <<>>)>>),
   Elem("light", [name |-> "sun"], "", <<>>),
   Elem("world", [name |-> "W"], "", <<>>)}

\* what readFile makes of the included file
FileRead(_root) == [ok |-> TRUE, errors |-> <<>>, root |-> _root]

FailedFileReads ==
  {[ok |-> FALSE, errors |-> e, root |-> Root(<<>>)] :
     e \in {<<>>, <<"ELEMENT_INVALID">>}}

\* what readXml makes of the <include> element itself
IncludeReads ==
  {[ok |-> TRUE, errors |-> <<>>],
   [ok |-> FALSE, errors |-> <<"ATTRIBUTE_INVALID">>]}

\* what the file system answers for the <uri>
UriLookups ==
  {[modelPath |-> "", isDirectory |-> FALSE, modelFilePath |-> ""],
   [modelPath |-> "m.sdf", isDirectory |-> FALSE, modelFilePath |-> ""],
   [modelPath |-> "m.urdf", isDirectory |-> FALSE, modelFilePath |-> ""],
   [modelPath |-> "dir", isDirectory |-> TRUE, modelFilePath |-> ""],
   [modelPath |-> "dir", isDirectory |-> TRUE,
    modelFilePath |-> "dir/model.sdf"]}

Env(_read, _lookup, _customModelParsers, _file) ==
  [read |-> _read, lookup |-> _lookup,
   customModelParsers |-> _customModelParsers, file |-> _file]

\* the included file is found and read
GoodEnv(_root) ==
  Env([ok |-> TRUE, errors |-> <<>>],
      [modelPath |-> "m.sdf", isDirectory |-> FALSE, modelFilePath |-> ""],
      FALSE, FileRead(_root))

Envs ==
  {Env(r, l, c, f) :
     r \in IncludeReads, l \in UriLookups, c \in BOOLEAN,
     f \in FailedFileReads
           \cup {FileRead(Root(<<e>>)) : e \in FileEntities}}

NoDom == [hasModel |-> FALSE, loadErrors |-> <<>>, model |-> NullModel]

\* sdf::Root::Load is only called by a merge-include that reaches it
DomOfInclude(_includeXml, _env) ==
  LET t == includedTree(_includeXml, _env.file, <<>>)
  IN  IF toMerge(_includeXml) /\ _env.file.ok /\ t.exit = ""
      THEN DomResults(t.root, {"L"}, DomErrors)
      ELSE {NoDom}

-----------------------------------------------------------------------------
(* The specification of readXml for an <include> *)

\* One <include> child read by readXml.
ReadInclude(_includeXml, _env, _dom) ==
  LET r == readXmlInclude(_includeXml, _env, parent, _dom, errors)
  IN  /\ parent' = r.parent
      /\ errors' = r.errors
      /\ ret' = r.ret
      /\ sdf' = sdf
      /\ UNCHANGED <<link, material>>
      /\ call' = [op |-> "readXml:include", includeXml |-> _includeXml,
                  env |-> _env, dom |-> _dom,
                  parent |-> parent, errors |-> errors]

\* every combination of overrides on every included file that is read
IncludeWithOverrides ==
  /\ Idle
  /\ \E x \in OverrideXmls : \E k \in 0..MaxTop :
       \E c \in [1..k -> FileEntities] :
         \E d \in DomOfInclude(x, GoodEnv(Root(c))) :
           ReadInclude(x, GoodEnv(Root(c)), d)

\* every answer of the file system and of the reads
IncludeInEnv ==
  /\ Idle
  /\ \E x \in PlainXmls : \E e \in Envs : \E d \in DomOfInclude(x, e) :
       ReadInclude(x, e, d)

NextInclude == IncludeWithOverrides \/ IncludeInEnv

SpecInclude == Init /\ [][NextInclude]_vars

-----------------------------------------------------------------------------
(* Claims about readXml for an <include> *)

IncludeCalled == call.op = "readXml:include"

\* the included file as readXml hands it to insertIncludedElement
IncludeTree ==
  includedTree(call.includeXml, call.env.file, <<>>)

\* the include reached insertIncludedElement
IncludeInserted ==
  /\ IncludeCalled
  /\ resolveFileNameFromUri(call.includeXml, call.env.lookup, <<>>).ok
  /\ \/ isSdfFile(resolveFileNameFromUri(call.includeXml, call.env.lookup,
                                         <<>>).fileName)
     \/ ~call.env.customModelParsers
  /\ IncludeTree.exit = ""

\* the top-level entities of the included file
FileEntityCount ==
  Cardinality({i \in 1..Len(call.env.file.root.children) :
     call.env.file.root.children[i].name \in {"model", "actor", "light"}})

\* the element the overrides were applied to
OverriddenEntity ==
  GetElementImpl(IncludeTree.root,
                 topLevelElementType(call.env.file.root))

\* C7: a non-merge include inserts into the parent the top-level entity chosen
\* by model > actor > light, the element the overrides were applied to,
\* whatever the order of the top-level elements of the file; and an error is
\* recorded when the file has more than one top-level entity.
C7_IncludeInsertsChosenEntity ==
  (IncludeInserted /\ ~toMerge(call.includeXml)) =>
    /\ NewChildren = <<OverriddenEntity>>
    /\ FileEntityCount > 1 =>
         \E i \in 1..Len(NewErrors) : NewErrors[i] = "ELEMENT_INCORRECT_TYPE"

-----------------------------------------------------------------------------
(* readDoc, readFile, readString *)
(*                                                                         *)
(* A tinyxml2::XMLDocument is a record [isNull, error, sdfLine, children]: *)
(* isNull a null pointer, error whether LoadFile / Parse failed, sdfLine   *)
(* the line of its <sdf> element, children its top-level elements.         *)

XmlDoc(_isNull, _error, _sdfLine, _children) ==
  [isNull |-> _isNull, error |-> _error, sdfLine |-> _sdfLine,
   children |-> _children]

\* SDF::Version()
SdfVersion == "1.9"

kSdfStringSource == "<data-string>"

kUrdfStringSource == "<urdf-string>"

Digits == <<"0", "1", "2", "3", "4", "5", "6", "7", "8", "9">>

\* ignition::math::SemanticVersion of a version string: major and minor of
\* "1.n" and "2.n", and 0.0 for a string that does not parse.
SemanticVersion(_v) ==
  IF \E n \in 1..Len(Digits) : _v = "1." \o Digits[n]
  THEN <<1, (CHOOSE n \in 1..Len(Digits) : _v = "1." \o Digits[n]) - 1>>
  ELSE IF \E n \in 1..Len(Digits) : _v = "2." \o Digits[n]
  THEN <<2, (CHOOSE n \in 1..Len(Digits) : _v = "2." \o Digits[n]) - 1>>
  ELSE <<0, 0>>

VersionAtLeast(_v, _major, _minor) ==
  \/ _v[1] > _major
  \/ _v[1] = _major /\ _v[2] >= _minor

\* names with the delimiter "::", on the names of the model
DoubleColonNames == {"a::b"}

ContainsDoubleColon(_name) == _name \in DoubleColonNames

\* shouldValidateElement that ignores no element
shouldValidateAnyElement(_elem) == TRUE

shouldValidateElement(_elem) ==
  /\ _elem.name # "plugin"
  /\ ~ContainsColon(_elem.name)

RECURSIVE recursiveSiblingNoDoubleColonInNames(_)
recursiveSiblingNoDoubleColonInNames(_elem) ==
  IF ~shouldValidateElement(_elem) THEN TRUE
  ELSE /\ ~(HasAttribute(_elem, "name")
            /\ ContainsDoubleColon(_elem.attrs.name))
       /\ \A i \in 1..Len(_elem.children) :
            recursiveSiblingNoDoubleColonInNames(_elem.children[i])

\* Converter::Convert: the document is brought to SDF::Version()
Convert(_sdfNode) == SetAttribute(_sdfNode, "version", SdfVersion)

\* checkXmlFromRoot, on an _xmlRoot that is not null: the pose of the first
\* top-level model must have an empty relative_to.
checkXmlFromRoot(_xmlRoot, _errors) ==
  LET topLevelElem == GetElementImpl(_xmlRoot, "model")
      topLevelPose == GetElementImpl(topLevelElem, "pose")
  IN  IF /\ HasElement(_xmlRoot, "model")
         /\ HasElement(topLevelElem, "pose")
         /\ HasAttribute(topLevelPose, "relative_to")
         /\ topLevelPose.attrs.relative_to # ""
      THEN [ok |-> FALSE, errors |-> Append(_errors, "ATTRIBUTE_INVALID")]
      ELSE [ok |-> TRUE, errors |-> _errors]

\* recordOriginal that does not test what is recorded already
recordOriginalAlways(_sdf, _version, _line) ==
  [_sdf EXCEPT
     !.originalVersion = _version,
     !.root.originalVersion = _version,
     !.root.lineNumber = _line,
     !.root.xmlPath = "/sdf"]

\* The fields readDoc records once on the SDF object and on its root: each
\* is set only when nothing is recorded yet.
recordOriginal(_sdf, _version, _line) ==
  [_sdf EXCEPT
     !.originalVersion = IF @ = "" THEN _version ELSE @,
     !.root.originalVersion = IF @ = "" THEN _version ELSE @,
     !.root.lineNumber = IF @ = 0 THEN _line ELSE @,
     !.root.xmlPath = IF @ = "" THEN "/sdf" ELSE @]

\* readDoc on an SDFPtr.  _read is what readXml makes of the <sdf> element:
\* ok and the errors it appends; a readXml that returns true leaves in the
\* root the children of the XML element.  steps lists the documents read.
readDoc(_xmlDoc, _sdf, _source, _convert, _read, _errors) ==
  LET sdfNode == GetElementImpl(_xmlDoc, "sdf")
      located == IF _source # kSdfStringSource
                 THEN [_sdf EXCEPT !.filePath = _source] ELSE _sdf
      version == sdfNode.attrs.version
      elemXml == IF _convert /\ version # SdfVersion
                 THEN Convert(sdfNode) ELSE sdfNode
      check   == checkXmlFromRoot(elemXml, _errors)
  IN  IF _xmlDoc.isNull
      THEN [ret |-> FALSE, sdf |-> _sdf, errors |-> _errors]
      ELSE IF ~HasElement(_xmlDoc, "sdf")
      THEN [ret |-> FALSE, sdf |-> _sdf, errors |-> _errors]
      ELSE IF _sdf.isNull \/ ~_sdf.hasRoot
      THEN [ret |-> FALSE, sdf |-> _sdf, errors |-> _errors]
      ELSE IF ~HasAttribute(sdfNode, "version")
      THEN [ret |-> FALSE, sdf |-> located, errors |-> _errors]
      ELSE IF ~check.ok
      THEN [ret |-> FALSE,
            sdf |-> recordOriginal(located, version, _xmlDoc.sdfLine),
            errors |-> Append(check.errors, "ELEMENT_INVALID")]
      ELSE IF ~_read.ok
      THEN [ret |-> FALSE,
            sdf |-> recordOriginal(located, version, _xmlDoc.sdfLine),
            errors |-> Append(check.errors \o _read.errors,
                              "ELEMENT_INVALID")]
      ELSE CHOOSE r \in
        {IF /\ VersionAtLeast(SemanticVersion(s.root.originalVersion), 1, 8)
            /\ ~recursiveSiblingNoDoubleColonInNames(
                  Elem("sdf", NoAttrs, "", s.root.children))
         THEN [ret |-> FALSE, sdf |-> s,
               errors |-> Append(check.errors \o _read.errors,
                                 "RESERVED_NAME")]
         ELSE [ret |-> TRUE, sdf |-> s,
               errors |-> check.errors \o _read.errors] :
           s \in {[t EXCEPT !.root.children = @ \o elemXml.children] :
             t \in {recordOriginal(located, version, _xmlDoc.sdfLine)}}} :
        TRUE

\* readFileInternal.  _file is what the file system and the parsers answer:
\* filename the result of sdf::findFile ("" when not found), isDirectory and
\* modelFilePath as in resolveFileNameFromUri, exists whether the file to
\* load exists, xmlDoc the document LoadFile makes of it and read what
\* readXml makes of that, isURDF the answer of URDF2SDF::IsURDF, urdfDoc the
\* document URDF2SDF makes and urdfRead what readXml makes of that.
readFileInternal(_file, _convert, _sdf, _errors) ==
  LET filename == IF _file.isDirectory THEN _file.modelFilePath
                  ELSE _file.filename
  IN  IF _file.filename = ""
      THEN [ret |-> FALSE, sdf |-> _sdf, errors |-> _errors, steps |-> <<>>]
      ELSE IF ~_file.exists
      THEN [ret |-> FALSE, sdf |-> _sdf, errors |-> _errors, steps |-> <<>>]
      ELSE IF _file.xmlDoc.error
      THEN [ret |-> FALSE, sdf |-> _sdf, errors |-> _errors,
            steps |-> <<"LoadFile">>]
      ELSE CHOOSE r \in
        {IF r1.ret
         THEN [ret |-> TRUE, sdf |-> r1.sdf, errors |-> r1.errors,
               steps |-> <<"LoadFile", "readDoc">>]
         ELSE IF _file.isURDF
         THEN CHOOSE q \in
           {[ret |-> r2.ret, sdf |-> r2.sdf, errors |-> r2.errors,
             steps |-> <<"LoadFile", "readDoc", "URDF2SDF", "readDoc">>] :
              r2 \in {readDoc(_file.urdfDoc, r1.sdf, "urdf file", _convert,
                              _file.urdfRead, r1.errors)}} : TRUE
         ELSE [ret |-> FALSE, sdf |-> r1.sdf, errors |-> r1.errors,
               steps |-> <<"LoadFile", "readDoc">>] :
           r1 \in {readDoc(_file.xmlDoc, _sdf, filename, _convert,
                           _file.read, _errors)}} : TRUE

\* readFile that returns an SDFPtr: null when the read fails.
readFile(_file, _errors) ==
  CHOOSE q \in
    {[ret |-> IF r.ret THEN "sdf" ELSE "null",
      sdf |-> IF r.ret THEN r.sdf ELSE NullSdf,
      errors |-> r.errors, steps |-> r.steps] :
       r \in {readFileInternal(_file, TRUE, FreshSdf, _errors)}} : TRUE

\* readStringInternal.  _string is what the parsers make of the string:
\* xmlDoc, read, urdfDoc, urdfRead as in readFileInternal.
readStringInternal(_string, _convert, _sdf, _errors) ==
  IF _string.xmlDoc.error
  THEN [ret |-> FALSE, sdf |-> _sdf, errors |-> _errors,
        steps |-> <<"Parse">>]
  ELSE CHOOSE r \in
    {IF r1.ret
     THEN [ret |-> TRUE, sdf |-> r1.sdf, errors |-> r1.errors,
           steps |-> <<"Parse", "readDoc">>]
     ELSE CHOOSE q \in
       {[ret |-> r2.ret, sdf |-> r2.sdf, errors |-> r2.errors,
         steps |-> <<"Parse", "readDoc", "URDF2SDF", "readDoc">>] :
          r2 \in {readDoc(_string.urdfDoc, r1.sdf, kUrdfStringSource,
                          _convert, _string.urdfRead, r1.errors)}} : TRUE :
       r1 \in {readDoc(_string.xmlDoc, _sdf, kSdfStringSource, _convert,
                       _string.read, _errors)}} : TRUE

-----------------------------------------------------------------------------
(* The inputs of the readers *)

DocLink == Elem("link", [name |-> "L"], "", <<>>)

\* the children of the <sdf> element of the documents
DocChildren ==
  {<<>>,
   <<Model("M", "", <<DocLink>>)>>,
   <<Model("M", "", <<Pose(""), DocLink>>)>>,
   <<Model("M", "", <<Pose("F0"), DocLink>>)>>,
   <<Model("M", "", <<DocLink>>), Model("N", "", <<Pose("F0"), DocLink>>)>>,
   <<Model("a::b", "", <<DocLink>>)>>,
   <<Elem("plugin", [name |-> "a::b", filename |-> "p.so"], "", <<>>)>>}

DocVersions == {"1.6", "1.9"}

\* documents that parse: with <sdf version="...">, with <sdf> without a
\* version, and with <robot> instead of <sdf>
ParsedDocs ==
  {XmlDoc(FALSE, FALSE, 1, <<Elem("sdf", [version |-> v], "", c)>>) :
     v \in DocVersions, c \in DocChildren}
  \cup {XmlDoc(FALSE, FALSE, 1, <<Elem("sdf", NoAttrs, "", <<>>)>>),
        XmlDoc(FALSE, FALSE, 1, <<Elem("robot", [name |-> "R"], "", <<>>)>>)}

\* a document whose LoadFile / Parse failed
FailedDoc == XmlDoc(FALSE, TRUE, 0, <<>>)

NullDoc == XmlDoc(TRUE, FALSE, 0, <<>>)

\* what URDF2SDF leaves in its document: the translated model, or nothing
\* when the input is not URDF
UrdfDocs ==
  {XmlDoc(FALSE, FALSE, 2,
          <<Elem("sdf", [version |-> "1.7"], "",
                 <<Model("R", "", <<DocLink>>)>>)>>),
   XmlDoc(FALSE, FALSE, 0, <<>>)}

\* what readXml makes of an <sdf> element
XmlReads ==
  {[ok |-> TRUE, errors |-> <<>>],
   [ok |-> TRUE, errors |-> <<"ELEMENT_DEPRECATED">>],
   [ok |-> FALSE, errors |-> <<"ATTRIBUTE_MISSING">>]}

StringInput(_xmlDoc, _read, _urdfDoc, _urdfRead) ==
  [xmlDoc |-> _xmlDoc, read |-> _read, urdfDoc |-> _urdfDoc,
   urdfRead |-> _urdfRead]

FileInput(_filename, _isDirectory, _modelFilePath, _exists, _isURDF, _string) ==
  [filename |-> _filename, isDirectory |-> _isDirectory,
   modelFilePath |-> _modelFilePath, exists |-> _exists, isURDF |-> _isURDF,
   xmlDoc |-> _string.xmlDoc, read |-> _string.read,
   urdfDoc |-> _string.urdfDoc, urdfRead |-> _string.urdfRead]

\* the file names and whether URDF2SDF::IsURDF holds of the file
FileNames == {<<"m.sdf", FALSE>>, <<"m.urdf", TRUE>>}

\* files that are not found, or do not exist
MissingFiles ==
  {FileInput(f[1], f[2], f[3], FALSE, FALSE,
             StringInput(FailedDoc, [ok |-> TRUE, errors |-> <<>>],
                         FailedDoc, [ok |-> TRUE, errors |-> <<>>])) :
     f \in {<<"", FALSE, "">>, <<"dir", TRUE, "">>, <<"m.sdf", FALSE, "">>}}

\* the SDF objects the readers are called on
InitSdfs ==
  {NullSdf, FreshSdf,
   Sdf(FALSE, TRUE, "old.sdf", "1.6", SdfRoot("1.6", 7, "/sdf", <<>>))}

-----------------------------------------------------------------------------
(* The specification of the readers *)

InitRead ==
  /\ parent = NullElem
  /\ errors \in InitErrors
  /\ ret = "none"
  /\ call = NoCall
  /\ sdf \in InitSdfs
  /\ link = NewLink
  /\ material = NewMaterial

\* The state after a reader returned _r.
Returned(_op, _input, _convert, _r, _ret) ==
  /\ parent' = parent
  /\ errors' = _r.errors
  /\ ret' = _ret
  /\ sdf' = _r.sdf
  /\ UNCHANGED <<link, material>>
  /\ call' = [op |-> _op, input |-> _input, convert |-> _convert,
              sdf |-> sdf, errors |-> errors, steps |-> _r.steps]

BoolRet(_r) == IF _r.ret THEN "true" ELSE "false"

\* readFile(_filename, _config, _errors), which makes the SDF object
ReadFileOn(_file) ==
  LET r == readFile(_file, errors)
  IN  Returned("readFile", _file, TRUE, r, r.ret)

\* readFile / readFileWithoutConversion on the caller's SDF object
ReadFileInternalOn(_file, _convert) ==
  LET r == readFileInternal(_file, _convert, sdf, errors)
  IN  Returned("readFileInternal", _file, _convert, r, BoolRet(r))

\* readString / readStringWithoutConversion on the caller's SDF object
ReadStringInternalOn(_string, _convert) ==
  LET r == readStringInternal(_string, _convert, sdf, errors)
  IN  Returned("readStringInternal", _string, _convert, r, BoolRet(r))

\* readDoc on the caller's document and SDF object
ReadDocOn(_xmlDoc, _source, _convert, _read) ==
  LET r == readDoc(_xmlDoc, sdf, _source, _convert, _read, errors)
      d == [xmlDoc |-> _xmlDoc, source |-> _source, read |-> _read]
  IN  Returned("readDoc", d, _convert,
               [ret |-> r.ret, sdf |-> r.sdf, errors |-> r.errors,
                steps |-> <<"readDoc">>], BoolRet(r))

ReadFile ==
  /\ Idle
  /\ sdf = FreshSdf
  /\ \/ \E f \in MissingFiles : ReadFileOn(f)
     \/ \E n \in FileNames : \E d \in ParsedDocs \cup {FailedDoc} :
          \E x \in XmlReads : \E u \in UrdfDocs :
            ReadFileOn(FileInput(n[1], FALSE, "", TRUE, n[2],
                                 StringInput(d, x, u, x)))

ReadFileInternal ==
  /\ Idle
  /\ \E c \in BOOLEAN :
       \/ \E f \in MissingFiles : ReadFileInternalOn(f, c)
       \/ \E n \in FileNames : \E d \in ParsedDocs \cup {FailedDoc} :
            \E x \in XmlReads : \E u \in UrdfDocs :
              ReadFileInternalOn(FileInput(n[1], FALSE, "", TRUE, n[2],
                                           StringInput(d, x, u, x)), c)

ReadStringInternal ==
  /\ Idle
  /\ \E c \in BOOLEAN : \E d \in ParsedDocs \cup {FailedDoc} :
       \E x \in XmlReads : \E u \in UrdfDocs :
         ReadStringInternalOn(StringInput(d, x, u, x), c)

ReadDoc ==
  /\ Idle
  /\ \E c \in BOOLEAN : \E d \in ParsedDocs \cup {NullDoc} :
       \E x \in XmlReads : \E src \in {kSdfStringSource, "m.sdf"} :
         ReadDocOn(d, src, c, x)

NextRead == ReadFile \/ ReadFileInternal \/ ReadStringInternal \/ ReadDoc

SpecRead == InitRead /\ [][NextRead]_vars

-----------------------------------------------------------------------------
(* Claims about the readers *)

ReadCalled ==
  call.op \in {"readFile", "readFileInternal", "readStringInternal", "readDoc"}

ReadFailed == ReadCalled /\ ret \in {"false", "null"}

\* C8: whenever readFile, readString or readDoc returns false, or readFile
\* returns a null SDFPtr, at least one error has been appended to the
\* caller's errors: also when the file is not found, the XML does not parse,
\* the <sdf> element is absent or the version attribute is absent.
C8_FailedReadAppendsError ==
  ReadFailed => Len(errors) > Len(call.errors)

\* the XML of the file or string did not parse
XmlParseFailed ==
  /\ call.op \in {"readFile", "readFileInternal", "readStringInternal"}
  /\ Len(call.steps) > 0
  /\ call.input.xmlDoc.error

\* C9: when the input does not parse as XML, the reader tries the URDF
\* translator before it gives up, and when the read then fails, a FILE_READ
\* or PARSING_ERROR error is in the errors it appended.
C9_UrdfTriedAfterXmlFailure ==
  XmlParseFailed =>
    /\ \E i \in 1..Len(call.steps) : call.steps[i] = "URDF2SDF"
    /\ ReadFailed =>
         \E i \in 1..Len(NewErrors) :
           NewErrors[i] \in {"FILE_READ", "PARSING_ERROR"}

-----------------------------------------------------------------------------
(* readAttributes *)
(*                                                                         *)
(* Here the sdf::Element is a record [name, attributes]: attributes is the *)
(* sequence of its sdf::Param, each [key, type, required, set, value].     *)
(* The XML element is [name, attributes], attributes being the sequence of *)
(* its [name, value] in document order.                                    *)

Param(_key, _type, _required, _set, _value) ==
  [key |-> _key, type |-> _type, required |-> _required, set |-> _set,
   value |-> _value]

\* ParserConfig: the two enforcement policies
ParserConfig(_warningsPolicy, _unrecognizedElementsPolicy) ==
  [warningsPolicy |-> _warningsPolicy,
   unrecognizedElementsPolicy |-> _unrecognizedElementsPolicy]

\* sdf::EnforcementPolicy
EnforcementPolicies == {"ERR", "WARN", "LOG"}

\* enforceConfigurablePolicyCondition: the error is appended under ERR and
\* printed under WARN and LOG.
enforceConfigurablePolicyCondition(_policy, _error, _errors) ==
  IF _policy = "ERR" THEN Append(_errors, _error) ELSE _errors

\* frameReferenceAttributes without the pair of custom_rpy
frameReferenceAttributesNoCustomRpy ==
  {<<"frame", "attached_to">>, <<"pose", "relative_to">>,
   <<"model", "placement_frame">>, <<"model", "canonical_link">>}

frameReferenceAttributes ==
  {<<"frame", "attached_to">>, <<"pose", "relative_to">>,
   <<"model", "placement_frame">>, <<"model", "canonical_link">>,
   <<"custom_rpy", "parent_frame">>}

\* Param::SetFromString succeeds: any text is a string, a bool is one of the
\* texts of the model that read as a bool
readsAs(_type, _value) == _type = "string" \/ _value \in {"true", "false"}

\* Param::SetFromString on an attribute: an empty text does not set a
\* required Param
setsFromString(_param, _value) ==
  /\ ~(_value = "" /\ _param.required)
  /\ readsAs(_param.type, _value)

\* Index of the first attribute of _sdf with that key, 0 when none has it.
AttributeIndex(_sdf, _key) ==
  IF \E i \in 1..Len(_sdf.attributes) : _sdf.attributes[i].key = _key
  THEN CHOOSE i \in 1..Len(_sdf.attributes) :
         /\ _sdf.attributes[i].key = _key
         /\ \A j \in 1..(i - 1) : _sdf.attributes[j].key # _key
  ELSE 0

\* One turn of the loop of readAttributes over the attributes of the XML:
\* ret is FALSE when readAttributes returns false in it.
readAttribute(_attribute, _sdf, _config, _errors) ==
  LET i == AttributeIndex(_sdf, _attribute.name)
      p == _sdf.attributes[i]
      checked ==
        IF /\ <<_sdf.name, _attribute.name>> \in frameReferenceAttributes
           /\ ~isValidFrameReference(_attribute.value)
        THEN Append(_errors, "ATTRIBUTE_INVALID") ELSE _errors
  IN  IF ContainsColon(_attribute.name)
      THEN [ret |-> TRUE,
            sdf |-> [_sdf EXCEPT !.attributes =
                       Append(@, Param(_attribute.name, "string", TRUE,
                                       _attribute.value # "",
                                       _attribute.value))],
            errors |-> _errors]
      ELSE IF i = 0
      THEN [ret |-> TRUE, sdf |-> _sdf,
            errors |-> enforceConfigurablePolicyCondition(
                         _config.warningsPolicy, "ATTRIBUTE_INCORRECT_TYPE",
                         _errors)]
      ELSE IF ~setsFromString(p, _attribute.value)
      THEN [ret |-> FALSE, sdf |-> _sdf,
            errors |-> Append(checked, "ATTRIBUTE_INVALID")]
      ELSE [ret |-> TRUE,
            sdf |-> [_sdf EXCEPT !.attributes[i].set = TRUE,
                                 !.attributes[i].value = _attribute.value],
            errors |-> checked]

\* The loop of readAttributes over the attributes of the XML.
RECURSIVE readXmlAttributes(_, _, _, _)
readXmlAttributes(_attributes, _sdf, _config, _errors) ==
  IF _attributes = <<>>
  THEN [ret |-> TRUE, sdf |-> _sdf, errors |-> _errors]
  ELSE CHOOSE r \in
    {IF ~st.ret THEN st
     ELSE readXmlAttributes(Tail(_attributes), st.sdf, _config, st.errors) :
       st \in {readAttribute(Head(_attributes), _sdf, _config, _errors)}} :
    TRUE

\* readAttributes: the loop, then the check of the required attributes.
readAttributes(_xml, _sdf, _config, _errors) ==
  CHOOSE r \in
    {IF ~st.ret THEN st
     ELSE IF \E i \in 1..Len(st.sdf.attributes) :
               /\ st.sdf.attributes[i].required
               /\ ~st.sdf.attributes[i].set
     THEN [ret |-> FALSE, sdf |-> st.sdf,
           errors |-> Append(st.errors, "ATTRIBUTE_MISSING")]
     ELSE st :
       st \in {readXmlAttributes(_xml.attributes, _sdf, _config, _errors)}} :
    TRUE

-----------------------------------------------------------------------------
(* The inputs of readAttributes *)

Declared(_key, _type, _required) == Param(_key, _type, _required, FALSE, "")

\* the elements as their descriptions make them, before they are read
AttrDescriptions ==
  {[name |-> "model",
    attributes |-> <<Declared("name", "string", TRUE),
                     Declared("canonical_link", "string", FALSE),
                     Declared("placement_frame", "string", FALSE)>>],
   [name |-> "pose",
    attributes |-> <<Declared("relative_to", "string", FALSE),
                     Declared("degrees", "bool", FALSE),
                     Declared("rotation_format", "string", FALSE)>>],
   [name |-> "frame",
    attributes |-> <<Declared("name", "string", TRUE),
                     Declared("attached_to", "string", FALSE)>>],
   [name |-> "custom_rpy",
    attributes |-> <<Declared("parent_frame", "string", FALSE)>>],
   [name |-> "link",
    attributes |-> <<Declared("name", "string", TRUE)>>]}

XmlAttribute(_name, _value) == [name |-> _name, value |-> _value]

XmlAttributes ==
  {XmlAttribute("name", "a"), XmlAttribute("name", "__root__"),
   XmlAttribute("relative_to", "a"), XmlAttribute("relative_to", "__root__"),
   XmlAttribute("attached_to", "a"), XmlAttribute("attached_to", "__root__"),
   XmlAttribute("placement_frame", "__root__"),
   XmlAttribute("canonical_link", "__root__"),
   XmlAttribute("parent_frame", "__root__"),
   XmlAttribute("degrees", "true"), XmlAttribute("degrees", "bad"),
   XmlAttribute("foo", "a"), XmlAttribute("custom:attr", "a")}

\* an XML element has no two attributes of the same name
DistinctNames(_attributes) ==
  \A i, j \in 1..Len(_attributes) :
    i # j => _attributes[i].name # _attributes[j].name

ParserConfigs ==
  {ParserConfig(w, u) : w \in EnforcementPolicies, u \in EnforcementPolicies}

-----------------------------------------------------------------------------
(* The specification of readAttributes *)

InitAttr ==
  /\ parent \in AttrDescriptions
  /\ errors \in InitErrors
  /\ ret = "none"
  /\ call = NoCall
  /\ sdf = NullSdf
  /\ link = NewLink
  /\ material = NewMaterial

ReadAttributesOn(_xml, _config) ==
  LET r == readAttributes(_xml, parent, _config, errors)
  IN  /\ parent' = r.sdf
      /\ errors' = r.errors
      /\ ret' = BoolRet(r)
      /\ sdf' = sdf
      /\ UNCHANGED <<link, material>>
      /\ call' = [op |-> "readAttributes", xml |-> _xml, config |-> _config,
                  parent |-> parent, errors |-> errors]

ReadAttributes ==
  /\ Idle
  /\ \E k \in 0..MaxAttrs : \E a \in [1..k -> XmlAttributes] :
       /\ DistinctNames(a)
       /\ \E c \in ParserConfigs :
            ReadAttributesOn([name |-> parent.name, attributes |-> a], c)

NextAttr == ReadAttributes

SpecAttr == InitAttr /\ [][NextAttr]_vars

-----------------------------------------------------------------------------
(* Claims about readAttributes *)

AttrCalled == call.op = "readAttributes"

\* the attribute is one the description of the element declares
IsDeclared(_attribute) ==
  AttributeIndex(call.parent, _attribute.name) # 0

\* the attributes of the XML without ':' that the description does not declare
Undeclared ==
  {i \in 1..Len(call.xml.attributes) :
     /\ ~ContainsColon(call.xml.attributes[i].name)
     /\ ~IsDeclared(call.xml.attributes[i])}

\* no attribute stopped the loop: the text of every declared one was read
AllAttributesRead ==
  \A i \in 1..Len(call.xml.attributes) :
    IsDeclared(call.xml.attributes[i]) =>
      readsAs(call.parent.attributes[
                AttributeIndex(call.parent, call.xml.attributes[i].name)].type,
              call.xml.attributes[i].value)

IncorrectTypeErrors ==
  Cardinality({i \in 1..Len(NewErrors) :
                 NewErrors[i] = "ATTRIBUTE_INCORRECT_TYPE"})

\* C10: an attribute of the XML without ':' in its name that the schema of
\* the element does not declare is handled by the UnrecognizedElementsPolicy:
\* under ERR one error is appended for it, under WARN or LOG none, whatever
\* the WarningsPolicy is.
C10_UndeclaredAttributeByElementsPolicy ==
  (AttrCalled /\ AllAttributesRead) =>
    IncorrectTypeErrors =
      IF call.config.unrecognizedElementsPolicy = "ERR"
      THEN Cardinality(Undeclared) ELSE 0

\* the attributes of the XML that name a frame and hold a reserved name
ReservedFrameReferences ==
  {i \in 1..Len(call.xml.attributes) :
     /\ <<call.xml.name, call.xml.attributes[i].name>> \in
          {<<"frame", "attached_to">>, <<"pose", "relative_to">>,
           <<"model", "placement_frame">>, <<"model", "canonical_link">>,
           <<"custom_rpy", "parent_frame">>}
     /\ call.xml.attributes[i].value = "__root__"}

InvalidAttributeErrors ==
  Cardinality({i \in 1..Len(NewErrors) : NewErrors[i] = "ATTRIBUTE_INVALID"})

\* the attribute of the element after the call that the XML attribute set
AttributeAfter(_attribute) ==
  parent.attributes[AttributeIndex(call.parent, _attribute.name)]

\* C11: while the attributes are read, the check for a reserved name is made
\* on an attribute exactly when (element, attribute) is one of
\* (frame, attached_to), (pose, relative_to), (model, placement_frame),
\* (model, canonical_link), (custom_rpy, parent_frame); a value that fails it
\* appends one error, and still the value is assigned to the attribute and
\* the attributes after it are read.
C11_ReservedNameCheckedOnFrameReferences ==
  (AttrCalled /\ AllAttributesRead) =>
    /\ InvalidAttributeErrors = Cardinality(ReservedFrameReferences)
    /\ \A i \in 1..Len(call.xml.attributes) :
         IsDeclared(call.xml.attributes[i]) =>
           /\ AttributeAfter(call.xml.attributes[i]).set
           /\ AttributeAfter(call.xml.attributes[i]).value
                = call.xml.attributes[i].value

C11_Witness ==
  /\ AttrCalled
  /\ call.parent.name = "custom_rpy"
  /\ call.xml.attributes =
       <<XmlAttribute("parent_frame", "__root__"), XmlAttribute("foo", "a")>>
  /\ call.config.warningsPolicy = "ERR"
  /\ NewErrors = <<"ATTRIBUTE_INVALID", "ATTRIBUTE_INCORRECT_TYPE">>
  /\ parent.attributes[1].value = "__root__"
  /\ ret = "true"

-----------------------------------------------------------------------------
(* readXml: an element without <include> children *)
(*                                                                         *)
(* Here the sdf::Element is a record [name, required, attributes,          *)
(* valueType, value, descriptions, children, copyChildren,                 *)
(* explicitlySetInFile]: valueType is "" for an element without a value,   *)
(* descriptions the sequence of the descriptions of its children, each an  *)
(* element of this shape.  The XML element is [name, attributes, value,    *)
(* children], value "" when GetText() is null; a null XMLElement has the   *)
(* name "".  An element with a ReferenceSDF is not among the inputs.       *)

Element(_name, _required, _attributes, _valueType, _descriptions, _copyChildren) ==
  [name |-> _name, required |-> _required, attributes |-> _attributes,
   valueType |-> _valueType, value |-> "", descriptions |-> _descriptions,
   children |-> <<>>, copyChildren |-> _copyChildren,
   explicitlySetInFile |-> TRUE]

XmlElement(_name, _attributes, _value, _children) ==
  [name |-> _name, attributes |-> _attributes, value |-> _value,
   children |-> _children]

NullXml == XmlElement("", <<>>, "", <<>>)

\* ParserConfig with the policy for deprecated elements
XmlParserConfig(_warningsPolicy, _unrecognizedElementsPolicy, _deprecatedElementsPolicy) ==
  [warningsPolicy |-> _warningsPolicy,
   unrecognizedElementsPolicy |-> _unrecognizedElementsPolicy,
   deprecatedElementsPolicy |-> _deprecatedElementsPolicy]

\* Index of the first description of _sdf with that name, 0 when none has it.
DescriptionIndex(_sdf, _name) ==
  IF \E i \in 1..Len(_sdf.descriptions) : _sdf.descriptions[i].name = _name
  THEN CHOOSE i \in 1..Len(_sdf.descriptions) :
         /\ _sdf.descriptions[i].name = _name
         /\ \A j \in 1..(i - 1) : _sdf.descriptions[j].name # _name
  ELSE 0

\* Element::Get<std::string> of an attribute
GetAttributeValue(_sdf, _key) ==
  IF AttributeIndex(_sdf, _key) = 0 THEN ""
  ELSE _sdf.attributes[AttributeIndex(_sdf, _key)].value

\* GetRequired() is "1" that never asks for "+"
isRequiredOnlyOne(_required) == _required = "1"

\* elemDesc->GetRequired() == "1" || elemDesc->GetRequired() == "+"
isRequired(_required) == _required = "1" \/ _required = "+"

\* Element::AddElement of a required child that is missing: the clone of
\* its description, marked as not set in the file.
defaultElement(_elemDesc) == [_elemDesc EXCEPT !.explicitlySetInFile = FALSE]

\* copyChildren on an element none of whose children has a description:
\* each child of the XML becomes a new element with its attributes as
\* strings and its text as a string value.
RECURSIVE copiedElement(_)
copiedElement(_elemXml) ==
  [name |-> _elemXml.name, required |-> "",
   attributes |-> [i \in 1..Len(_elemXml.attributes) |->
                     Param(_elemXml.attributes[i].name, "string", TRUE,
                           _elemXml.attributes[i].value # "",
                           _elemXml.attributes[i].value)],
   valueType |-> IF _elemXml.value # "" THEN "string" ELSE "",
   value |-> _elemXml.value, descriptions |-> <<>>,
   children |-> [i \in 1..Len(_elemXml.children) |->
                   copiedElement(_elemXml.children[i])],
   copyChildren |-> FALSE, explicitlySetInFile |-> TRUE]

\* copyChildren(_sdf, _xml, true), and copyChildren(_sdf, _xml, false) on an
\* element without child descriptions: the children of the XML that have no
\* description are copied, in their order.
RECURSIVE copyChildren(_, _)
copyChildren(_sdf, _xmlChildren) ==
  IF _xmlChildren = <<>> THEN _sdf
  ELSE IF DescriptionIndex(_sdf, Head(_xmlChildren).name) # 0
  THEN copyChildren(_sdf, Tail(_xmlChildren))
  ELSE CHOOSE r \in
    {copyChildren(t, Tail(_xmlChildren)) :
       t \in {InsertElement(_sdf, copiedElement(Head(_xmlChildren)))}} : TRUE

\* The check of readXml that all required elements have been set.
RECURSIVE addRequiredElements(_, _, _)
addRequiredElements(_descriptions, _sdf, _errors) ==
  IF _descriptions = <<>>
  THEN [ret |-> TRUE, sdf |-> _sdf, errors |-> _errors, at |-> "end"]
  ELSE IF /\ isRequired(Head(_descriptions).required)
          /\ ~HasElement(_sdf, Head(_descriptions).name)
  THEN IF _sdf.name = "joint" /\ GetAttributeValue(_sdf, "type") # "ball"
       THEN [ret |-> FALSE, sdf |-> _sdf,
             errors |-> Append(_errors, "ELEMENT_MISSING"),
             at |-> "required"]
       ELSE CHOOSE r \in
         {addRequiredElements(Tail(_descriptions), t, _errors) :
            t \in {InsertElement(_sdf,
                                 defaultElement(Head(_descriptions)))}} : TRUE
  ELSE addRequiredElements(Tail(_descriptions), _sdf, _errors)

RECURSIVE readXml(_, _, _, _)
RECURSIVE readXmlChildren(_, _, _, _)

\* The loop of readXml over the children of the XML, none an <include>.
readXmlChildren(_xmlChildren, _sdf, _config, _errors) ==
  IF _xmlChildren = <<>>
  THEN [ret |-> TRUE, sdf |-> _sdf, errors |-> _errors, at |-> "end"]
  ELSE LET elemXml == Head(_xmlChildren)
           d == DescriptionIndex(_sdf, elemXml.name)
       IN  IF d # 0
           THEN CHOOSE r \in
             {IF read.ret
              THEN CHOOSE n \in
                {readXmlChildren(Tail(_xmlChildren), k, _config,
                                 read.errors) :
                   k \in {InsertElement(_sdf, read.sdf)}} : TRUE
              ELSE [ret |-> FALSE, sdf |-> _sdf,
                    errors |-> Append(read.errors, "ELEMENT_INVALID"),
                    at |-> "child"] :
                read \in {readXml(elemXml, _sdf.descriptions[d], _config,
                                  _errors)}} : TRUE
           ELSE IF ~ContainsColon(elemXml.name)
           THEN CHOOSE r \in
             {readXmlChildren(Tail(_xmlChildren), _sdf, _config, e) :
                e \in {enforceConfigurablePolicyCondition(
                         _config.unrecognizedElementsPolicy,
                         "ELEMENT_INCORRECT_TYPE", _errors)}} : TRUE
           ELSE readXmlChildren(Tail(_xmlChildren), _sdf, _config, _errors)

\* Param::SetFromString of the value of the element, on the text of the XML
\* or on "" when it has none: ok is FALSE when the text does not read, and
\* when it is empty for the value of an element with required "1".
readValue(_xml, _sdf) ==
  IF _sdf.valueType = "" THEN [ok |-> TRUE, sdf |-> _sdf]
  ELSE IF _xml.value = ""
  THEN [ok |-> _sdf.required # "1", sdf |-> _sdf]
  ELSE IF readsAs(_sdf.valueType, _xml.value)
  THEN [ok |-> TRUE, sdf |-> [_sdf EXCEPT !.value = _xml.value]]
  ELSE [ok |-> FALSE, sdf |-> _sdf]

\* readXml.  at is where it returned: "null" on a null XML, "attributes",
\* "value", "copy" after copyChildren of an element that copies its
\* children, "child" in the loop over the children, "required" in the
\* check of the required elements, "end" at the end.
readXml(_xml, _sdf, _config, _errors) ==
  CHOOSE r \in
    {IF _xml.name = ""
     THEN IF isRequired(_sdf.required)
          THEN [ret |-> FALSE, sdf |-> _sdf,
                errors |-> Append(e0, "ELEMENT_MISSING"), at |-> "null"]
          ELSE [ret |-> TRUE, sdf |-> _sdf, errors |-> e0, at |-> "null"]
     ELSE CHOOSE q \in
       {IF ~a.ret
        THEN [ret |-> FALSE, sdf |-> a.sdf, errors |-> a.errors,
              at |-> "attributes"]
        ELSE CHOOSE p \in
          {IF ~v.ok
           THEN [ret |-> FALSE, sdf |-> v.sdf, errors |-> a.errors,
                 at |-> "value"]
           ELSE IF _sdf.copyChildren
           THEN [ret |-> TRUE, sdf |-> copyChildren(v.sdf, _xml.children),
                 errors |-> a.errors, at |-> "copy"]
           ELSE CHOOSE o \in
             {IF ~c.ret THEN c
              ELSE CHOOSE n \in
                {addRequiredElements(k.descriptions, k, c.errors) :
                   k \in {copyChildren(c.sdf, _xml.children)}} : TRUE :
                c \in {readXmlChildren(_xml.children, v.sdf, _config,
                                       a.errors)}} : TRUE :
             v \in {readValue(_xml, a.sdf)}} : TRUE :
          a \in {readAttributes(_xml, _sdf, _config, e0)}} : TRUE :
       e0 \in {IF _sdf.required = "-1"
               THEN enforceConfigurablePolicyCondition(
                      _config.deprecatedElementsPolicy, "ELEMENT_DEPRECATED",
                      _errors)
               ELSE _errors}} : TRUE

-----------------------------------------------------------------------------
(* The inputs of readXml *)

TextDesc(_name, _required, _valueType) ==
  Element(_name, _required, <<>>, _valueType, <<>>, FALSE)

\* a joint, with the attributes and three of the children of joint.sdf
JointDesc ==
  Element("joint", "*",
          <<Declared("name", "string", TRUE),
            Declared("type", "string", TRUE)>>, "",
          <<TextDesc("parent", "1", "string"),
            TextDesc("child", "1", "string"),
            TextDesc("pose", "0", "string")>>, FALSE)

\* an element, not a joint, with a child description of each cardinality
WorldDesc ==
  Element("world", "*", <<Declared("name", "string", TRUE)>>, "",
          <<TextDesc("gravity", "1", "string"),
            Element("physics", "+", <<>>, "", <<>>, FALSE),
            TextDesc("audio", "0", "bool"),
            Element("light", "*", <<Declared("name", "string", TRUE)>>, "",
                    <<>>, FALSE),
            TextDesc("legacy", "-1", "string")>>, FALSE)

\* an element that copies its children
PluginDesc ==
  Element("plugin", "*",
          <<Declared("name", "string", TRUE),
            Declared("filename", "string", TRUE)>>, "", <<>>, TRUE)

XmlLeaf(_name, _value) == XmlElement(_name, <<>>, _value, <<>>)

\* an element with ':' in its name, with an attribute, a text and a child
NamespacedXml ==
  XmlElement("custom:elem", <<XmlAttribute("custom:attr", "a")>>, "1",
             <<XmlLeaf("inner", "2")>>)

UnknownXmlChildren == {XmlLeaf("foo", "1"), NamespacedXml}

\* the XML of the elements read, without their children
XmlParents ==
  [joint |-> {XmlElement("joint", <<XmlAttribute("name", "J"),
                                    XmlAttribute("type", t)>>, "", <<>>) :
                t \in {"ball", "revolute"}},
   world |-> {XmlElement("world", <<XmlAttribute("name", "W")>>, "", <<>>),
              XmlElement("world", <<XmlAttribute("custom:attr", "a"),
                                    XmlAttribute("name", "W")>>, "", <<>>),
              XmlElement("world", <<XmlAttribute("custom:attr", ""),
                                    XmlAttribute("name", "W")>>, "", <<>>),
              XmlElement("world", <<>>, "", <<>>)},
   plugin |-> {XmlElement("plugin", <<XmlAttribute("name", "P"),
                                      XmlAttribute("filename", "p.so")>>,
                          "", <<>>)}]

\* the children the XML of each element may have
XmlChildrenOf ==
  [joint |-> {XmlLeaf("parent", "L1"), XmlLeaf("child", "L2"),
              XmlLeaf("pose", "1 0 0 0 0 0")} \cup UnknownXmlChildren,
   world |-> {XmlLeaf("gravity", "0 0 -9.8"), XmlLeaf("gravity", ""),
              XmlLeaf("physics", ""), XmlLeaf("audio", "true"),
              XmlLeaf("audio", "bad"), XmlLeaf("legacy", "1"),
              XmlElement("light", <<XmlAttribute("name", "sun")>>, "", <<>>)}
             \cup UnknownXmlChildren,
   plugin |-> UnknownXmlChildren]

XmlDescriptions == {JointDesc, WorldDesc, PluginDesc}

XmlParserConfigs ==
  {XmlParserConfig(w, u, d) :
     w \in EnforcementPolicies, u \in EnforcementPolicies,
     d \in EnforcementPolicies}

-----------------------------------------------------------------------------
(* The specification of readXml *)

InitXml ==
  /\ parent \in XmlDescriptions
  /\ errors \in InitErrors
  /\ ret = "none"
  /\ call = NoCall
  /\ sdf = NullSdf
  /\ link = NewLink
  /\ material = NewMaterial

ReadXmlOn(_xml, _config) ==
  LET r == readXml(_xml, parent, _config, errors)
  IN  /\ parent' = r.sdf
      /\ errors' = r.errors
      /\ ret' = BoolRet(r)
      /\ sdf' = sdf
      /\ UNCHANGED <<link, material>>
      /\ call' = [op |-> "readXml", xml |-> _xml, config |-> _config,
                  parent |-> parent, errors |-> errors, at |-> r.at]

\* readXml on an element of the XML
ReadXml ==
  /\ Idle
  /\ \E x \in XmlParents[parent.name] : \E k \in 0..MaxXmlChildren :
       \E c \in [1..k -> XmlChildrenOf[parent.name]] :
         \E g \in XmlParserConfigs :
           ReadXmlOn([x EXCEPT !.children = c], g)

\* readXml on a null XML element
ReadXmlNull ==
  /\ Idle
  /\ \E g \in XmlParserConfigs : ReadXmlOn(NullXml, g)

NextXml == ReadXml \/ ReadXmlNull

SpecXml == InitXml /\ [][NextXml]_vars

-----------------------------------------------------------------------------
(* Claims about readXml *)

XmlCalled == call.op = "readXml"

\* readXml went through the loop over the children
ChildrenRead == XmlCalled /\ call.at \in {"required", "end"}

\* the descriptions of required children of which the XML has no instance
MissingRequired ==
  {i \in 1..Len(call.parent.descriptions) :
     /\ call.parent.descriptions[i].required \in {"1", "+"}
     /\ \A j \in 1..Len(call.xml.children) :
          call.xml.children[j].name # call.parent.descriptions[i].name}

\* the element read is a joint whose type is not ball
JointNotBall ==
  /\ call.parent.name = "joint"
  /\ \E i \in 1..Len(call.xml.attributes) :
       /\ call.xml.attributes[i].name = "type"
       /\ call.xml.attributes[i].value # "ball"

\* C12: after the children are read, a description of a child with required
\* "1" or "+" and no instance makes readXml of a joint whose type is not ball
\* append ELEMENT_MISSING and return false; of any other element it adds the
\* default child, marked as not set in the file, so that when readXml returns
\* true every required child is there.
C12_RequiredChildrenAfterRead ==
  ChildrenRead =>
    IF JointNotBall /\ MissingRequired # {}
    THEN /\ ret = "false"
         /\ NewErrors # <<>>
         /\ NewErrors[Len(NewErrors)] = "ELEMENT_MISSING"
    ELSE /\ ret = "true"
         /\ \A i \in MissingRequired :
              /\ HasElement(parent, call.parent.descriptions[i].name)
              /\ ~GetElementImpl(parent, call.parent.descriptions[i].name)
                    .explicitlySetInFile
         /\ \A i \in 1..Len(call.parent.descriptions) :
              call.parent.descriptions[i].required \in {"1", "+"} =>
                HasElement(parent, call.parent.descriptions[i].name)

C12_Witness ==
  /\ ChildrenRead
  /\ call.parent.name = "world"
  /\ Len(call.xml.children) = 1
  /\ call.xml.children[1].name = "gravity"
  /\ ret = "true"
  /\ Len(parent.children) = 2
  /\ parent.children[1].name = "gravity"
  /\ parent.children[1].explicitlySetInFile
  /\ parent.children[2].name = "physics"
  /\ ~parent.children[2].explicitlySetInFile

-----------------------------------------------------------------------------
(* Claims about readDoc *)

DocCalled == call.op = "readDoc"

\* the <sdf> element of the document of the call
DocSdfNode == GetElementImpl(call.input.xmlDoc, "sdf")

\* readDoc has a document with a versioned <sdf> and an SDF object to fill
DocReadable ==
  /\ DocCalled
  /\ ~call.input.xmlDoc.isNull
  /\ HasElement(call.input.xmlDoc, "sdf")
  /\ ~call.sdf.isNull /\ call.sdf.hasRoot
  /\ HasAttribute(DocSdfNode, "version")

\* readDoc went through checkXmlFromRoot and readXml
DocWasRead ==
  /\ DocReadable
  /\ checkXmlFromRoot(DocSdfNode, <<>>).ok
  /\ call.input.read.ok

\* some element of the trees has a name with "::"
RECURSIVE AnyDoubleColon(_)
AnyDoubleColon(_elems) ==
  \E i \in 1..Len(_elems) :
    \/ /\ "name" \in DOMAIN _elems[i].attrs
       /\ _elems[i].attrs.name = "a::b"
    \/ AnyDoubleColon(_elems[i].children)

\* some element of the trees that is neither a plugin nor namespaced, nor
\* below such an element, has a name with "::"
RECURSIVE AnyCheckedDoubleColon(_)
AnyCheckedDoubleColon(_elems) ==
  \E i \in 1..Len(_elems) :
    /\ _elems[i].name # "plugin"
    /\ _elems[i].name \notin {"custom:elem", "experimental:params"}
    /\ \/ /\ "name" \in DOMAIN _elems[i].attrs
          /\ _elems[i].attrs.name = "a::b"
       \/ AnyCheckedDoubleColon(_elems[i].children)

\* the version is 1.8 or later
FromVersion18(_v) == _v \in {"1.8", "1.9"}

LastNewError == IF NewErrors = <<>> THEN "" ELSE NewErrors[Len(NewErrors)]

\* C13 as stated: when the version of the document is 1.8 or later, a
\* readDoc that returns true leaves no element anywhere in the tree with a
\* name that contains "::", and any such name makes readDoc append
\* RESERVED_NAME and return false; below 1.8 the check is not made.
C13_NoDoubleColonAnywhere ==
  DocWasRead =>
    IF FromVersion18(DocSdfNode.attrs.version)
    THEN /\ ret = "true" => ~AnyDoubleColon(sdf.root.children)
         /\ AnyDoubleColon(sdf.root.children) =>
              ret = "false" /\ LastNewError = "RESERVED_NAME"
    ELSE LastNewError # "RESERVED_NAME"

\* C13: when the original version recorded on the root is 1.8 or later, a
\* readDoc that returns true leaves no element with a name that contains "::"
\* among the elements that are neither <plugin> nor namespaced nor below one,
\* and any such name makes readDoc append RESERVED_NAME and return false; a
\* name with "::" on or below a <plugin> or a namespaced element does not
\* fail the read, and when that version is below 1.8 the check is not made.
C13_NoDoubleColonInCheckedNames ==
  DocWasRead =>
    IF FromVersion18(sdf.root.originalVersion)
    THEN /\ ret = "true" <=> ~AnyCheckedDoubleColon(sdf.root.children)
         /\ AnyCheckedDoubleColon(sdf.root.children) =>
              ret = "false" /\ LastNewError = "RESERVED_NAME"
    ELSE ret = "true" /\ LastNewError # "RESERVED_NAME"

C13_Witness ==
  /\ DocWasRead
  /\ call.sdf = FreshSdf
  /\ DocSdfNode.attrs.version = "1.9"
  /\ Len(sdf.root.children) = 1
  /\ sdf.root.children[1].name = "model"
  /\ sdf.root.children[1].attrs.name = "a::b"
  /\ ret = "false"
  /\ LastNewError = "RESERVED_NAME"

\* some top-level model of the document has a pose with a relative_to that
\* is not empty
AnyTopLevelModelPoseRelative ==
  \E i \in 1..Len(DocSdfNode.children) :
    /\ DocSdfNode.children[i].name = "model"
    /\ \E j \in 1..Len(DocSdfNode.children[i].children) :
         /\ DocSdfNode.children[i].children[j].name = "pose"
         /\ "relative_to" \in DOMAIN DocSdfNode.children[i].children[j].attrs
         /\ DocSdfNode.children[i].children[j].attrs.relative_to # ""

\* C14: a top-level model whose pose has a relative_to that is not empty,
\* whichever top-level model of the document it is, makes the read fail
\* before anything is read: checkXmlFromRoot appends ATTRIBUTE_INVALID,
\* readDoc appends ELEMENT_INVALID and returns false, and readXml is not
\* called.
C14_EveryTopLevelModelPoseChecked ==
  (DocReadable /\ AnyTopLevelModelPoseRelative) =>
    /\ ret = "false"
    /\ NewErrors = <<"ATTRIBUTE_INVALID", "ELEMENT_INVALID">>
    /\ sdf.root.children = call.sdf.root.children

-----------------------------------------------------------------------------
(* Claims about the overrides of an <include> *)

\* the include reached the overrides: the file was found, is read by the
\* SDF parser, was read, and has a top-level entity
IncludeOverridden ==
  /\ IncludeCalled
  /\ resolveFileNameFromUri(call.includeXml, call.env.lookup, <<>>).ok
  /\ \/ isSdfFile(resolveFileNameFromUri(call.includeXml, call.env.lookup,
                                         <<>>).fileName)
     \/ ~call.env.customModelParsers
  /\ call.env.file.ok
  /\ topLevelElementType(call.env.file.root) # ""

\* C15: an include of a model that has <placement_frame> and no <pose>
\* appends MODEL_PLACEMENT_FRAME_INVALID as its last error, makes readXml
\* return false, and leaves the parent as it was before the include.
C15_PlacementFrameNeedsPose ==
  ( /\ IncludeOverridden
    /\ topLevelElementType(call.env.file.root) = "model"
    /\ HasElement(call.includeXml, "placement_frame")
    /\ ~HasElement(call.includeXml, "pose") ) =>
    /\ ret = "false"
    /\ LastNewError = "MODEL_PLACEMENT_FRAME_INVALID"
    /\ parent = call.parent

C15_Witness ==
  /\ IncludeOverridden
  /\ topLevelElementType(call.env.file.root) = "model"
  /\ HasElement(call.includeXml, "placement_frame")
  /\ ~HasElement(call.includeXml, "pose")
  /\ HasElement(call.includeXml, "name")
  /\ toMerge(call.includeXml)
  /\ ret = "false"
  /\ LastNewError = "MODEL_PLACEMENT_FRAME_INVALID"
  /\ parent = call.parent

\* the top-level entity of the included file, as the file has it
FileEntity ==
  GetElementImpl(call.env.file.root, topLevelElementType(call.env.file.root))

\* the <pose> of the include
IncludePose == GetElementImpl(call.includeXml, "pose")

\* C16: when the include has a <pose>, the pose of the included entity has
\* the text of the include's pose as its value, or the default value when
\* the include's pose has no text, and each of relative_to, degrees and
\* rotation_format has the value the include's pose gives it, or its default
\* when the include's pose does not have it, whatever the included file had;
\* when the include has no <pose>, the included entity has the pose of the
\* file, or none if the file had none.
C16_IncludePoseOverrides ==
  IncludeOverridden =>
    IF HasElement(call.includeXml, "pose")
    THEN /\ HasElement(OverriddenEntity, "pose")
         /\ GetElementImpl(OverriddenEntity, "pose").value
              = IF IncludePose.value # "" THEN IncludePose.value
                ELSE DefaultPoseValue
         /\ \A a \in PoseAttributes :
              GetElementImpl(OverriddenEntity, "pose").attrs[a]
                = IF a \in DOMAIN IncludePose.attrs THEN IncludePose.attrs[a]
                  ELSE PoseAttributeDefault(a)
    ELSE GetElementImpl(OverriddenEntity, "pose")
           = GetElementImpl(FileEntity, "pose")

\* the file's model has degrees "true" and a relative_to; the include's pose
\* has only relative_to: degrees is back at "false" in the entity inserted
C16_Witness ==
  /\ IncludeInserted
  /\ ~toMerge(call.includeXml)
  /\ FileEntity.name = "model"
  /\ GetElementImpl(FileEntity, "pose").attrs.degrees = "true"
  /\ GetElementImpl(FileEntity, "pose").attrs.relative_to = "W0"
  /\ DOMAIN IncludePose.attrs = {"relative_to"}
  /\ NewChildren # <<>>
  /\ GetElementImpl(NewChildren[1], "pose").attrs.degrees = "false"
  /\ GetElementImpl(NewChildren[1], "pose").attrs.relative_to = "F0"
  /\ GetElementImpl(NewChildren[1], "pose").value = "5 0 0 0 0 0"

-----------------------------------------------------------------------------
(* Nested reads: readXml calls readFile on the file of each <include>      *)
(*                                                                         *)
(* A file is a record [parses, includes]: whether LoadFile succeeds, and   *)
(* the URIs of the <include> elements of its model, in document order.     *)
(* The calls of readFile in progress are a stack of frames [file, at]: the *)
(* file being read and the <include> its readXml is at.  What readXml does *)
(* with the tree of a file that was read is readXmlInclude above; here     *)
(* only the calls and their returns are followed, to the depth MaxDepth.   *)

IncludedFiles == {"a.sdf", "b.sdf"}

\* the URIs of the <include> elements: the files, and one that
\* resolveFileNameFromUri does not find
IncludeUris == IncludedFiles \cup {"model://none"}

FileContents ==
  {[parses |-> FALSE, includes |-> <<>>]}
  \cup {[parses |-> TRUE, includes |-> u] :
          u \in UNION {[1..k -> IncludeUris] : k \in 0..MaxIncludes}}

Frame(_file) == [file |-> _file, at |-> 1]

InitNested ==
  /\ parent = NullElem
  /\ errors \in InitErrors
  /\ ret = "none"
  /\ call = NoCall
  /\ sdf = NullSdf
  /\ link = NewLink
  /\ material = NewMaterial

\* readFile is running
Reading == call.op = "readFile:nested" /\ call.stack # <<>>

TopFrame == call.stack[Len(call.stack)]

TopFile == call.files[TopFrame.file]

\* The innermost readFile returns _ok to the readXml that called it, or
\* to the caller of the outermost readFile.
ReturnFromFile(_ok) ==
  LET rest == SubSeq(call.stack, 1, Len(call.stack) - 1)
  IN  /\ call' = [call EXCEPT
                    !.stack = IF rest # <<>> /\ _ok
                              THEN [rest EXCEPT ![Len(rest)].at = @ + 1]
                              ELSE rest,
                    !.failing = ~_ok]
      /\ ret' = IF rest = <<>> THEN (IF _ok THEN "true" ELSE "false")
                ELSE ret

\* readFile on a file of a tree of files
ReadNestedFile ==
  /\ Idle
  /\ \E fs \in [IncludedFiles -> FileContents] : \E f \in IncludedFiles :
       call' = [op |-> "readFile:nested", files |-> fs,
                stack |-> <<Frame(f)>>, failing |-> FALSE,
                errors |-> errors]
  /\ UNCHANGED <<parent, errors, ret, sdf, link, material>>

\* readFileInternal: LoadFile fails, false is returned and nothing is
\* appended
LoadFails ==
  /\ Reading /\ ~call.failing
  /\ ~TopFile.parses
  /\ ReturnFromFile(FALSE)
  /\ UNCHANGED <<parent, errors, sdf, link, material>>

\* readXml at an <include> whose URI is not found: URI_LOOKUP, and on to the
\* next child
UriNotFound ==
  /\ Reading /\ ~call.failing
  /\ TopFile.parses
  /\ TopFrame.at <= Len(TopFile.includes)
  /\ TopFile.includes[TopFrame.at] \notin IncludedFiles
  /\ errors' = Append(errors, "URI_LOOKUP")
  /\ call' = [call EXCEPT !.stack[Len(call.stack)].at = @ + 1]
  /\ UNCHANGED <<parent, ret, sdf, link, material>>

\* readXml at an <include> whose file is found: readFile is called on it
EnterInclude ==
  /\ Reading /\ ~call.failing
  /\ TopFile.parses
  /\ TopFrame.at <= Len(TopFile.includes)
  /\ TopFile.includes[TopFrame.at] \in IncludedFiles
  /\ Len(call.stack) < MaxDepth
  /\ call' = [call EXCEPT
                !.stack = Append(@, Frame(TopFile.includes[TopFrame.at]))]
  /\ UNCHANGED <<parent, errors, ret, sdf, link, material>>

\* the readFile of an <include> returned false: readXml of the model appends
\* FILE_READ and returns false, readXml of <sdf> and readDoc each append
\* ELEMENT_INVALID, and readFileInternal returns false
IncludeFails ==
  /\ Reading /\ call.failing
  /\ errors' = errors \o <<"FILE_READ", "ELEMENT_INVALID", "ELEMENT_INVALID">>
  /\ ReturnFromFile(FALSE)
  /\ UNCHANGED <<parent, sdf, link, material>>

\* readXml is past the last <include> of the file: readFile returns true
FileReturns ==
  /\ Reading /\ ~call.failing
  /\ TopFile.parses
  /\ TopFrame.at > Len(TopFile.includes)
  /\ ReturnFromFile(TRUE)
  /\ UNCHANGED <<parent, errors, sdf, link, material>>

NextNested ==
  \/ ReadNestedFile
  \/ LoadFails
  \/ UriNotFound
  \/ EnterInclude
  \/ IncludeFails
  \/ FileReturns

SpecNested == InitNested /\ [][NextNested]_vars

-----------------------------------------------------------------------------
(* Claims about nested reads *)

\* C17: the nested reads of a document do not recurse without bound: a cycle
\* of <include> URIs is detected, so readFile is never called on a file while
\* a read of that same file is in progress.
C17_IncludeCycleDetected ==
  call.op = "readFile:nested" =>
    \A i, j \in 1..Len(call.stack) :
      i < j => call.stack[i].file # call.stack[j].file

-----------------------------------------------------------------------------
(* Link::Load and Material::Load *)

\* sdf::Element::Get<T>(_key, _default): the attribute _key or the value of
\* the child element _key, and whether there was one.
ElementGet(_elem, _key, _default) ==
  IF HasAttribute(_elem, _key)
  THEN [first |-> _elem.attrs[_key], second |-> TRUE]
  ELSE IF HasElement(_elem, _key)
  THEN [first |-> GetElementImpl(_elem, _key).value, second |-> TRUE]
  ELSE [first |-> _default, second |-> FALSE]

\* the numbers of the documents
Numbers == -1..3

\* the number a text stands for, _default when it stands for none
ParseDouble(_s, _default) ==
  IF \E n \in Numbers : ToString(n) = _s
  THEN CHOOSE n \in Numbers : ToString(n) = _s
  ELSE _default

ParseBool(_s, _default) ==
  IF _s \in {"true", "1"} THEN TRUE
  ELSE IF _s \in {"false", "0"} THEN FALSE
  ELSE _default

\* Get<double>(_key, _default).first
GetDouble(_elem, _key, _default) ==
  ParseDouble(ElementGet(_elem, _key, "").first, _default)

\* Get<bool>(_key, _default).first
GetBool(_elem, _key, _default) ==
  ParseBool(ElementGet(_elem, _key, "").first, _default)

\* loadName: the name attribute, "" when there is none
loadName(_sdf) == ElementGet(_sdf, "name", "")

\* names that isReservedName rejects: "world", and names that begin and end
\* with "__"
ReservedNames == {"world", "__model__", "__root__"}

isReservedName(_name) == _name \in ReservedNames

\* loadPose: the pose and the frame of _sdf, or of its <pose>; _pose and
\* _frame are left as they are when there is no <pose>.
loadPose(_sdf, _pose, _frame) ==
  LET poseElem == IF _sdf.name = "pose" THEN _sdf
                  ELSE GetElementImpl(_sdf, "pose")
  IN  IF _sdf.name # "pose" /\ ~HasElement(_sdf, "pose")
      THEN [pose |-> _pose, frame |-> _frame, ret |-> FALSE]
      ELSE [pose |-> IF poseElem.value = "" THEN PoseZero ELSE poseElem.value,
            frame |-> ElementGet(poseElem, "relative_to", "").first,
            ret |-> TRUE]

\* Load of a Visual, Collision, Light, Sensor or ParticleEmitter: its name,
\* and the parent name and the graph that the link hands it later
LoadedChild(_elem) ==
  [name |-> ElementGet(_elem, "name", "").first, xmlParentName |-> "",
   poseRelativeToGraph |-> NoGraph]

\* loadUniqueRepeated: an object is loaded from each child _sdfName of _sdf
\* and appended to _objs.  The names are distinct within one element in the
\* documents that are read here, and the objects load without errors.
loadUniqueRepeated(_sdf, _sdfName, _objs) ==
  [objs |-> _objs \o [i \in 1..Len(SelectSeq(_sdf.children,
                                     LAMBDA e : e.name = _sdfName)) |->
               LoadedChild(SelectSeq(_sdf.children,
                                     LAMBDA e : e.name = _sdfName)[i])],
   errors |-> <<>>]

\* ignition::math::MassMatrix3d::IsValid: the matrix is positive
\* semi-definite with a mass that is not negative, and its moments satisfy
\* the triangle inequality.
IsValid(_m) ==
  /\ _m.mass >= 0
  /\ _m.ixx >= 0
  /\ _m.ixx * _m.iyy - _m.ixy * _m.ixy >= 0
  /\ _m.ixx * (_m.iyy * _m.izz - _m.iyz * _m.iyz)
       - _m.ixy * (_m.ixy * _m.izz - _m.iyz * _m.ixz)
       + _m.ixz * (_m.ixy * _m.iyz - _m.iyy * _m.ixz) >= 0
  /\ _m.ixx + _m.iyy >= _m.izz
  /\ _m.iyy + _m.izz >= _m.ixx
  /\ _m.izz + _m.ixx >= _m.iyy

\* The mass matrix Link::Load reads from the <inertial> of _sdf.
linkMassMatrix(_sdf) ==
  LET inertialElem == GetElementImpl(_sdf, "inertial")
      inertiaElem  == GetElementImpl(inertialElem, "inertia")
      hasInertia   == HasElement(_sdf, "inertial")
                      /\ HasElement(inertialElem, "inertia")
      moment(k, d) == IF hasInertia THEN GetDouble(inertiaElem, k, d) ELSE d
  IN  MassMatrix3d(IF HasElement(_sdf, "inertial")
                   THEN GetDouble(inertialElem, "mass", 1) ELSE 1,
                   <<moment("ixx", 1), moment("iyy", 1), moment("izz", 1)>>,
                   <<moment("ixy", 0), moment("ixz", 0), moment("iyz", 0)>>)

\* The pose Link::Load reads from the <inertial> of _sdf.
linkInertiaPose(_sdf) ==
  LET inertialElem == GetElementImpl(_sdf, "inertial")
  IN  IF HasElement(_sdf, "inertial") /\ HasElement(inertialElem, "pose")
      THEN loadPose(GetElementImpl(inertialElem, "pose"), PoseZero, "").pose
      ELSE PoseZero

\* Inertial::SetPose that leaves the pose as it was
InertialPoseKept(_inertial, _pose) == _inertial

\* ignition::math::Inertiald::SetPose
InertialSetPose(_inertial, _pose) == [_inertial EXCEPT !.pose = _pose]

\* Link::Load on the object _link: the object it leaves and the errors it
\* returns.
LinkLoad(_link, _sdf) ==
  LET name    == loadName(_sdf)
      pose    == loadPose(_sdf, _link.pose, _link.poseRelativeTo)
      vis     == loadUniqueRepeated(_sdf, "visual", _link.visuals)
      coll    == loadUniqueRepeated(_sdf, "collision", _link.collisions)
      light   == loadUniqueRepeated(_sdf, "light", _link.lights)
      sensor  == loadUniqueRepeated(_sdf, "sensor", _link.sensors)
      emitter == loadUniqueRepeated(_sdf, "particle_emitter", _link.emitters)
      matrix  == linkMassMatrix(_sdf)
  IN  IF _sdf.name # "link"
      THEN [link |-> [_link EXCEPT !.sdf = _sdf],
            errors |-> <<"ELEMENT_INCORRECT_TYPE">>]
      ELSE [link |->
              [name |-> name.first,
               pose |-> pose.pose, poseRelativeTo |-> pose.frame,
               visuals |-> vis.objs, lights |-> light.objs,
               collisions |-> coll.objs, sensors |-> sensor.objs,
               emitters |-> emitter.objs,
               inertial |-> InertialSetPose(
                              Inertial(matrix, _link.inertial.pose),
                              linkInertiaPose(_sdf)),
               sdf |-> _sdf,
               enableWind |-> GetBool(_sdf, "enable_wind", _link.enableWind),
               poseRelativeToGraph |-> _link.poseRelativeToGraph],
            errors |->
              (IF ~name.second THEN <<"ATTRIBUTE_MISSING">> ELSE <<>>)
              \o (IF isReservedName(name.first)
                  THEN <<"RESERVED_NAME">> ELSE <<>>)
              \o vis.errors \o coll.errors \o light.errors
              \o sensor.errors \o emitter.errors
              \o (IF ~IsValid(matrix)
                  THEN <<"LINK_INERTIA_INVALID">> ELSE <<>>)]

\* sdf::Element::FilePath: the elements read here are all of one file
FilePath(_elem) == "model.sdf"

\* Get<std::string>(_key, ""), with "__default__" read as ""
GetStringNoDefault(_elem, _key) ==
  LET p == ElementGet(_elem, _key, "")
  IN  [first |-> IF p.first = "__default__" THEN "" ELSE p.first,
       second |-> p.second]

\* the ShaderType of a <shader><type>, "" when the text names none
shaderType(_text) ==
  IF _text = "pixel" THEN "PIXEL"
  ELSE IF _text = "vertex" THEN "VERTEX"
  ELSE IF _text \in {"normal_map_objectspace", "normal_map_object_space"}
  THEN "NORMAL_MAP_OBJECTSPACE"
  ELSE IF _text \in {"normal_map_tangentspace", "normal_map_tangent_space"}
  THEN "NORMAL_MAP_TANGENTSPACE"
  ELSE ""

\* Pbr::Load: the object remembers its element; no errors in the documents
\* read here
LoadedPbr(_elem) == [hasValue |-> TRUE, sdf |-> _elem]

\* Material::Load on the object _material: the object it leaves and the
\* errors it returns.
MaterialLoad(_material, _sdf) ==
  LET script   == GetElementImpl(_sdf, "script")
      uriPair  == GetStringNoDefault(script, "uri")
      namePair == GetStringNoDefault(script, "name")
      shaderEl == GetElementImpl(_sdf, "shader")
      type     == shaderType(ElementGet(shaderEl, "type", "pixel").first)
      shader   == IF HasElement(_sdf, "shader") /\ type # ""
                  THEN type ELSE _material.shader
      normal   == IF HasElement(_sdf, "shader")
                  THEN GetStringNoDefault(shaderEl, "normal_map").first
                  ELSE _material.normalMap
      color(k) == ElementGet(_sdf, k, _material[k]).first
  IN  IF _sdf.name # "material"
      THEN [material |-> [_material EXCEPT !.sdf = _sdf,
                                           !.filePath = FilePath(_sdf)],
            errors |-> <<"ELEMENT_INCORRECT_TYPE">>]
      ELSE [material |->
              [scriptUri |-> IF HasElement(_sdf, "script") THEN uriPair.first
                             ELSE _material.scriptUri,
               scriptName |-> IF HasElement(_sdf, "script")
                              THEN namePair.first ELSE _material.scriptName,
               shader |-> shader, normalMap |-> normal,
               lighting |-> GetBool(_sdf, "lighting", _material.lighting),
               doubleSided |-> GetBool(_sdf, "double_sided",
                                       _material.doubleSided),
               ambient |-> color("ambient"), diffuse |-> color("diffuse"),
               specular |-> color("specular"),
               emissive |-> color("emissive"),
               renderOrder |-> GetDouble(_sdf, "render_order",
                                         _material.renderOrder),
               pbr |-> IF HasElement(_sdf, "pbr")
                       THEN LoadedPbr(GetElementImpl(_sdf, "pbr"))
                       ELSE _material.pbr,
               sdf |-> _sdf, filePath |-> FilePath(_sdf)],
            errors |->
              (IF HasElement(_sdf, "script")
                  /\ (~uriPair.second \/ uriPair.first = "")
               THEN <<"ELEMENT_INVALID">> ELSE <<>>)
              \o (IF HasElement(_sdf, "script")
                     /\ (~namePair.second \/ namePair.first = "")
                  THEN <<"ELEMENT_MISSING">> ELSE <<>>)
              \o (IF HasElement(_sdf, "shader") /\ type = ""
                  THEN <<"ELEMENT_INVALID">> ELSE <<>>)
              \o (IF /\ HasElement(_sdf, "shader")
                     /\ shader \in {"NORMAL_MAP_OBJECTSPACE",
                                    "NORMAL_MAP_TANGENTSPACE"}
                     /\ normal = ""
                  THEN <<"ELEMENT_MISSING">> ELSE <<>>)]

-----------------------------------------------------------------------------
(* The inputs of Link::Load and Material::Load *)

InertialXml(_mass, _pose, _moments) ==
  Elem("inertial", NoAttrs, "",
       _pose \o <<XmlText("mass", _mass)>> \o _moments)

InertiaXml(_ixx, _iyy, _izz, _ixy) ==
  <<Elem("inertia", NoAttrs, "",
         <<XmlText("ixx", _ixx), XmlText("iyy", _iyy), XmlText("izz", _izz),
           XmlText("ixy", _ixy), XmlText("ixz", "0"), XmlText("iyz", "0")>>)>>

InertialPoseXml == <<Elem("pose", [relative_to |-> ""], "0 0 1 0 0 0", <<>>)>>

\* no <inertial>, one with a valid mass matrix, one with a negative mass
LinkInertialOpts ==
  {<<>>,
   <<InertialXml("2", InertialPoseXml, InertiaXml("2", "2", "2", "1"))>>,
   <<InertialXml("-1", InertialPoseXml, <<>>)>>}

LinkWindOpts == {<<>>, <<XmlText("enable_wind", "true")>>}

NamedXml(_type, _name) == Elem(_type, [name |-> _name], "", <<>>)

LinkChildOpts ==
  {<<>>,
   <<NamedXml("visual", "v"), NamedXml("collision", "c")>>,
   <<NamedXml("visual", "v"), NamedXml("visual", "w"),
     NamedXml("light", "l"), NamedXml("sensor", "s"),
     NamedXml("particle_emitter", "e")>>}

LinkPoseOpts == {<<>>, <<Pose("F1")>>}

\* <link> elements, one without a name, one with a reserved name, one whose
\* moments fail the triangle inequality, and an element that is no <link>
LinkElements ==
  {Elem("link", [name |-> "L"], "", p \o c \o i \o w) :
     p \in LinkPoseOpts, c \in LinkChildOpts, i \in LinkInertialOpts,
     w \in LinkWindOpts}
  \cup {Elem("link", NoAttrs, "", <<>>),
        Elem("link", [name |-> "__model__"], "", <<>>),
        Elem("link", [name |-> "K"], "",
             <<InertialXml("1", <<>>, InertiaXml("1", "1", "3", "0"))>>),
        Elem("model", [name |-> "M"], "", <<>>)}

ScriptOpts ==
  {<<>>,
   <<Elem("script", NoAttrs, "",
          <<XmlText("uri", "file://m.material"), XmlText("name", "Red")>>)>>,
   <<Elem("script", NoAttrs, "", <<XmlText("uri", "__default__")>>)>>,
   <<Elem("script", NoAttrs, "", <<XmlText("uri", "file://m.material")>>)>>}

ShaderOpts ==
  {<<>>,
   <<Elem("shader", [type |-> "vertex"], "", <<>>)>>,
   <<Elem("shader", [type |-> "normal_map_objectspace"], "", <<>>)>>,
   <<Elem("shader", [type |-> "normal_map_tangent_space"], "",
          <<XmlText("normal_map", "n.png")>>)>>,
   <<Elem("shader", [type |-> "glow"], "", <<>>)>>}

MaterialValueOpts ==
  {<<>>,
   <<XmlText("render_order", "2"), XmlText("ambient", "1 0 0 1"),
     XmlText("diffuse", "0 1 0 1"), XmlText("specular", "0 0 1 1"),
     XmlText("emissive", "1 1 0 1"), XmlText("lighting", "false"),
     XmlText("double_sided", "true"), Elem("pbr", NoAttrs, "", <<>>)>>}

MaterialElements ==
  {Elem("material", NoAttrs, "", c \o h \o v) :
     c \in ScriptOpts, h \in ShaderOpts, v \in MaterialValueOpts}
  \cup {Elem("visual", [name |-> "v"], "", <<>>)}

-----------------------------------------------------------------------------
(* The specification of Link::Load and Material::Load *)

InitLoad ==
  /\ parent = NullElem
  /\ errors = <<>>
  /\ ret = "none"
  /\ call = NoCall
  /\ sdf = NullSdf
  /\ link = NewLink
  /\ material = NewMaterial

\* the calls of Load made so far on the object
Loads == IF call.op = "none" THEN 0 ELSE call.loads

\* Link::Load(_sdf) on the link, which returns its errors
LinkLoadOn(_sdf) ==
  LET r == LinkLoad(link, _sdf)
  IN  /\ link' = r.link
      /\ errors' = r.errors
      /\ call' = [op |-> "Link::Load", sdf |-> _sdf, link |-> link,
                  material |-> material, loads |-> Loads + 1]
      /\ UNCHANGED <<parent, ret, sdf, material>>

\* Material::Load(_sdf) on the material, which returns its errors
MaterialLoadOn(_sdf) ==
  LET r == MaterialLoad(material, _sdf)
  IN  /\ material' = r.material
      /\ errors' = r.errors
      /\ call' = [op |-> "Material::Load", sdf |-> _sdf, link |-> link,
                  material |-> material, loads |-> Loads + 1]
      /\ UNCHANGED <<parent, ret, sdf, link>>

\* Load on a link, new or loaded before
LoadLink ==
  /\ call.op \in {"none", "Link::Load"}
  /\ Loads < MaxLoads
  /\ \E e \in LinkElements : LinkLoadOn(e)

\* Load on a material, new or loaded before
LoadMaterial ==
  /\ call.op \in {"none", "Material::Load"}
  /\ Loads < MaxLoads
  /\ \E e \in MaterialElements : MaterialLoadOn(e)

NextLoad == LoadLink \/ LoadMaterial

SpecLoad == InitLoad /\ [][NextLoad]_vars

-----------------------------------------------------------------------------
(* Claims about Load *)

\* the call was a Load on an object that a Load had gone through before
SecondLoad ==
  \/ /\ call.op = "Link::Load"
     /\ call.loads > 1
     /\ call.link.sdf.name = "link"
  \/ /\ call.op = "Material::Load"
     /\ call.loads > 1
     /\ call.material.sdf.name = "material"

\* C18: a Load on an object that was loaded before, without a reset in
\* between, is prevented: it leaves the link, or the material, as the first
\* Load left it.
C18_SecondLoadPrevented ==
  SecondLoad => (link = call.link /\ material = call.material)

\* the children of _type that one Load of the element appends
LoadedChildren(_type) ==
  loadUniqueRepeated(call.sdf, _type, <<>>).objs

\* Link::Load went past the check of the element and found the mass matrix
\* of the element invalid
InvalidInertiaLoaded ==
  /\ call.op = "Link::Load"
  /\ call.sdf.name = "link"
  /\ ~IsValid(linkMassMatrix(call.sdf))

\* C20: a Link::Load that finds the mass matrix invalid returns
\* LINK_INERTIA_INVALID as its last error and completes the load: the
\* inertial pose is the one of the element, enable_wind is the one of the
\* element (or stays when the element has none), and the name, the pose and
\* the children of the element are in the link.
C20_InvalidInertiaCompletesLoad ==
  InvalidInertiaLoaded =>
    /\ errors # <<>>
    /\ errors[Len(errors)] = "LINK_INERTIA_INVALID"
    /\ link.inertial.pose = linkInertiaPose(call.sdf)
    /\ link.enableWind
         = IF HasElement(call.sdf, "enable_wind")
           THEN GetElementImpl(call.sdf, "enable_wind").value = "true"
           ELSE call.link.enableWind
    /\ link.name = call.sdf.attrs.name
    /\ HasElement(call.sdf, "pose") =>
         /\ link.pose = GetElementImpl(call.sdf, "pose").value
         /\ link.poseRelativeTo
              = GetElementImpl(call.sdf, "pose").attrs.relative_to
    /\ link.visuals = call.link.visuals \o LoadedChildren("visual")
    /\ link.collisions = call.link.collisions \o LoadedChildren("collision")
    /\ link.lights = call.link.lights \o LoadedChildren("light")
    /\ link.sensors = call.link.sensors \o LoadedChildren("sensor")
    /\ link.emitters
         = call.link.emitters \o LoadedChildren("particle_emitter")
    /\ link.sdf = call.sdf

\* a new link loaded from an element with a negative mass, a pose, an
\* inertial pose, enable_wind and five children
C20_Witness ==
  /\ InvalidInertiaLoaded
  /\ call.loads = 1
  /\ errors = <<"LINK_INERTIA_INVALID">>
  /\ link.inertial.massMatrix.mass = -1
  /\ link.inertial.pose = "0 0 1 0 0 0"
  /\ link.enableWind
  /\ link.name = "L"
  /\ link.pose = "1 2 3 0 0 0"
  /\ link.poseRelativeTo = "F1"
  /\ Len(link.visuals) = 2
  /\ Len(link.emitters) = 1

-----------------------------------------------------------------------------
(* Link::SetName, Link::SetPoseRelativeToGraph and Link::SemanticPose *)

\* SetXmlParentName and SetPoseRelativeToGraph on each object of a vector
withGraph(_objs, _name, _graph) ==
  [i \in 1..Len(_objs) |->
     [_objs[i] EXCEPT !.xmlParentName = _name,
                      !.poseRelativeToGraph = _graph]]

LinkSetPoseRelativeToGraph(_link, _graph) ==
  [_link EXCEPT
     !.poseRelativeToGraph = _graph,
     !.collisions = withGraph(@, _link.name, _graph),
     !.lights = withGraph(@, _link.name, _graph),
     !.sensors = withGraph(@, _link.name, _graph),
     !.visuals = withGraph(@, _link.name, _graph),
     !.emitters = withGraph(@, _link.name, _graph)]

LinkSetName(_link, _name) == [_link EXCEPT !.name = _name]

\* sdf::SemanticPose as Link::SemanticPose constructs it
LinkSemanticPose(_link) ==
  [name |-> _link.name, rawPose |-> _link.pose,
   relativeTo |-> _link.poseRelativeTo, defaultResolveTo |-> "__model__",
   graph |-> _link.poseRelativeToGraph]

\* the links that are loaded, all with the name "L"
NamedLinkElements ==
  {Elem("link", [name |-> "L"], "", p \o c) :
     p \in LinkPoseOpts, c \in LinkChildOpts}

\* the names given to the link
LinkNames == {"L", "K"}

\* the graphs of the model that has the link: a vertex for the model, for
\* the link under the name it has, and for the frames of the model
PoseGraphsOf(_link) ==
  {ScopedGraph({"__model__", _link.name} \cup f) : f \in {{}, {"F1"}}}

\* a link is loaded
LoadNamedLink ==
  /\ Idle
  /\ \E e \in NamedLinkElements : LinkLoadOn(e)

\* Link::SetPoseRelativeToGraph(_graph)
SetPoseRelativeToGraph ==
  /\ ~Idle
  /\ \E g \in PoseGraphsOf(link) :
       /\ link' = LinkSetPoseRelativeToGraph(link, g)
       /\ call' = [op |-> "Link::SetPoseRelativeToGraph", graph |-> g,
                   link |-> link]
  /\ UNCHANGED <<parent, errors, ret, sdf, material>>

\* Link::SetName(_name)
SetName ==
  /\ ~Idle
  /\ \E n \in LinkNames :
       /\ link' = LinkSetName(link, n)
       /\ call' = [op |-> "Link::SetName", name |-> n, link |-> link]
  /\ UNCHANGED <<parent, errors, ret, sdf, material>>

\* Link::SemanticPose(), whose result is kept with the call
SemanticPose ==
  /\ ~Idle
  /\ call' = [op |-> "Link::SemanticPose", link |-> link,
              result |-> LinkSemanticPose(link)]
  /\ UNCHANGED <<parent, errors, ret, sdf, link, material>>

NextGraph ==
  \/ LoadNamedLink
  \/ SetPoseRelativeToGraph
  \/ SetName
  \/ SemanticPose

SpecGraph == InitLoad /\ [][NextGraph]_vars

-----------------------------------------------------------------------------
(* Claims about the name of a link and its graph *)

\* the objects the link holds
LinkChildren ==
  link.collisions \o link.lights \o link.sensors \o link.visuals
  \o link.emitters

\* C19: once the graph of a link was installed, a change of its name is
\* followed by a rebuild or is detected: the children of the link have the
\* name of the link as their XML parent name, and a SemanticPose is built
\* from a name that is a vertex of the graph it holds.
C19_RenameKeepsGraphConsistent ==
  link.poseRelativeToGraph # NoGraph =>
    /\ \A i \in 1..Len(LinkChildren) :
         LinkChildren[i].xmlParentName = link.name
    /\ call.op = "Link::SemanticPose" =>
         call.result.name \in call.result.graph.vertices

-----------------------------------------------------------------------------
(* Link::ToElement *)

\* the text sdf::Param gives a number and a bool
FormatDouble(_n) == ToString(_n)

FormatBool(_b) == IF _b THEN "true" ELSE "false"

\* ToElement of a Visual, Collision, Light, Sensor or ParticleEmitter: an
\* element of its type with its name
ChildToElement(_type, _obj) == Elem(_type, [name |-> _obj.name], "", <<>>)

ChildrenToElements(_type, _objs) ==
  [i \in 1..Len(_objs) |-> ChildToElement(_type, _objs[i])]

\* the <inertial> that Link::ToElement writes
InertialToElement(_inertial) ==
  Elem("inertial", NoAttrs, "",
       <<Elem("pose", [relative_to |-> ""], _inertial.pose, <<>>),
         XmlText("mass", FormatDouble(_inertial.massMatrix.mass)),
         Elem("inertia", NoAttrs, "",
              <<XmlText("ixx", FormatDouble(_inertial.massMatrix.ixx)),
                XmlText("ixy", FormatDouble(_inertial.massMatrix.ixy)),
                XmlText("ixz", FormatDouble(_inertial.massMatrix.ixz)),
                XmlText("iyy", FormatDouble(_inertial.massMatrix.iyy)),
                XmlText("iyz", FormatDouble(_inertial.massMatrix.iyz)),
                XmlText("izz", FormatDouble(_inertial.massMatrix.izz))>>)>>)

\* Link::ToElement without the <enable_wind>
LinkToElementNoWind(_link) ==
  Elem("link", [name |-> _link.name], "",
       <<Elem("pose", [relative_to |-> _link.poseRelativeTo], _link.pose,
              <<>>),
         InertialToElement(_link.inertial)>>
       \o ChildrenToElements("collision", _link.collisions)
       \o ChildrenToElements("light", _link.lights)
       \o ChildrenToElements("particle_emitter", _link.emitters)
       \o ChildrenToElements("sensor", _link.sensors)
       \o ChildrenToElements("visual", _link.visuals))

\* Link::ToElement: the relative_to of a new <pose> is "", and it is set
\* only when poseRelativeTo is not empty
LinkToElement(_link) ==
  Elem("link", [name |-> _link.name], "",
       <<Elem("pose",
              [relative_to |-> IF _link.poseRelativeTo # ""
                               THEN _link.poseRelativeTo ELSE ""],
              _link.pose, <<>>),
         InertialToElement(_link.inertial),
         XmlText("enable_wind", FormatBool(_link.enableWind))>>
       \o ChildrenToElements("collision", _link.collisions)
       \o ChildrenToElements("light", _link.lights)
       \o ChildrenToElements("particle_emitter", _link.emitters)
       \o ChildrenToElements("sensor", _link.sensors)
       \o ChildrenToElements("visual", _link.visuals))

\* the names given to a link by SetName
RoundTripNames == {"K", "__model__"}

\* a link is loaded from an element
LoadLinkOnce ==
  /\ Idle
  /\ \E e \in LinkElements : LinkLoadOn(e)

\* Link::SetName on the loaded link
RenameLoadedLink ==
  /\ call.op = "Link::Load"
  /\ \E n \in RoundTripNames :
       /\ link' = LinkSetName(link, n)
       /\ call' = [op |-> "Link::SetName", name |-> n, link |-> link]
  /\ UNCHANGED <<parent, errors, ret, sdf, material>>

\* Link::ToElement, whose result is kept in parent
LinkToElementOn ==
  /\ call.op \in {"Link::Load", "Link::SetName"}
  /\ parent' = LinkToElement(link)
  /\ call' = [op |-> "Link::ToElement", link |-> link]
  /\ UNCHANGED <<errors, ret, sdf, link, material>>

\* Link::Load of the element that ToElement made, on a new link; the link
\* that made the element stays with the call
LoadLinkElement ==
  /\ call.op = "Link::ToElement"
  /\ link' = LinkLoad(NewLink, parent).link
  /\ errors' = LinkLoad(NewLink, parent).errors
  /\ call' = [op |-> "Link::Load(ToElement)", link |-> call.link,
              sdf |-> parent]
  /\ UNCHANGED <<parent, ret, sdf, material>>

NextLinkRoundTrip ==
  \/ LoadLinkOnce
  \/ RenameLoadedLink
  \/ LinkToElementOn
  \/ LoadLinkElement

SpecLinkRoundTrip == InitLoad /\ [][NextLinkRoundTrip]_vars

-----------------------------------------------------------------------------
(* Claims about the round trip of a link *)

ChildNames(_objs) == [i \in 1..Len(_objs) |-> _objs[i].name]

UniqueNames(_objs) ==
  \A i, j \in 1..Len(_objs) : _objs[i].name = _objs[j].name => i = j

\* a link with a valid mass matrix and unique child names was written by
\* ToElement and the element was loaded
LinkRoundTrip ==
  /\ call.op = "Link::Load(ToElement)"
  /\ IsValid(call.link.inertial.massMatrix)
  /\ UniqueNames(call.link.collisions) /\ UniqueNames(call.link.lights)
  /\ UniqueNames(call.link.emitters) /\ UniqueNames(call.link.sensors)
  /\ UniqueNames(call.link.visuals)

\* the fields of the link that made the element are those of the link
\* loaded from it
SameLinkFields ==
  /\ link.name = call.link.name
  /\ link.pose = call.link.pose
  /\ link.poseRelativeTo = call.link.poseRelativeTo
  /\ link.inertial.massMatrix = call.link.inertial.massMatrix
  /\ link.inertial.pose = call.link.inertial.pose
  /\ link.enableWind = call.link.enableWind
  /\ ChildNames(link.collisions) = ChildNames(call.link.collisions)
  /\ ChildNames(link.lights) = ChildNames(call.link.lights)
  /\ ChildNames(link.emitters) = ChildNames(call.link.emitters)
  /\ ChildNames(link.sensors) = ChildNames(call.link.sensors)
  /\ ChildNames(link.visuals) = ChildNames(call.link.visuals)

-----------------------------------------------------------------------------
(* Material::ToElement *)

\* the type written for a shader, with the two normal map spaces mixed up
shaderTextObjectSpace(_shader) ==
  IF _shader = "VERTEX" THEN "vertex"
  ELSE IF _shader \in {"NORMAL_MAP_OBJECTSPACE", "NORMAL_MAP_TANGENTSPACE"}
  THEN "normal_map_object_space"
  ELSE "pixel"

\* the type Material::ToElement writes for a shader
shaderText(_shader) ==
  IF _shader = "VERTEX" THEN "vertex"
  ELSE IF _shader = "NORMAL_MAP_OBJECTSPACE" THEN "normal_map_object_space"
  ELSE IF _shader = "NORMAL_MAP_TANGENTSPACE" THEN "normal_map_tangent_space"
  ELSE "pixel"

\* Material::ToElement; the <pbr> is written as the element it was loaded
\* from
MaterialToElement(_material) ==
  Elem("material", NoAttrs, "",
       <<XmlText("ambient", _material.ambient),
         XmlText("diffuse", _material.diffuse),
         XmlText("specular", _material.specular),
         XmlText("emissive", _material.emissive),
         XmlText("render_order", FormatDouble(_material.renderOrder)),
         XmlText("lighting", FormatBool(_material.lighting)),
         XmlText("double_sided", FormatBool(_material.doubleSided))>>
       \o (IF _material.scriptName # "" /\ _material.scriptUri # ""
           THEN <<Elem("script", NoAttrs, "",
                       <<XmlText("uri", _material.scriptUri),
                         XmlText("name", _material.scriptName)>>)>>
           ELSE <<>>)
       \o <<Elem("shader", [type |-> shaderText(_material.shader)], "",
                 IF _material.normalMap # ""
                 THEN <<XmlText("normal_map", _material.normalMap)>>
                 ELSE <<>>)>>
       \o (IF _material.pbr.hasValue
           THEN <<Elem("pbr", NoAttrs, "", _material.pbr.sdf.children)>>
           ELSE <<>>))

\* the texts given by the setters
ScriptUris == {"", "file://s.material", "__default__"}

ScriptNames == {"", "Blue"}

NormalMaps == {"", "m.png", "__default__"}

\* a material is loaded from an element
LoadMaterialOnce ==
  /\ Idle
  /\ \E e \in MaterialElements : MaterialLoadOn(e)

\* the material was loaded, and perhaps changed by setters since
MaterialBuilt ==
  call.op \in {"Material::Load", "Material::SetScriptUri",
               "Material::SetScriptName", "Material::SetNormalMap"}

SetScriptUri ==
  /\ MaterialBuilt
  /\ \E u \in ScriptUris :
       /\ material' = [material EXCEPT !.scriptUri = u]
       /\ call' = [op |-> "Material::SetScriptUri", uri |-> u]
  /\ UNCHANGED <<parent, errors, ret, sdf, link>>

SetScriptName ==
  /\ MaterialBuilt
  /\ \E n \in ScriptNames :
       /\ material' = [material EXCEPT !.scriptName = n]
       /\ call' = [op |-> "Material::SetScriptName", name |-> n]
  /\ UNCHANGED <<parent, errors, ret, sdf, link>>

SetNormalMap ==
  /\ MaterialBuilt
  /\ \E m \in NormalMaps :
       /\ material' = [material EXCEPT !.normalMap = m]
       /\ call' = [op |-> "Material::SetNormalMap", map |-> m]
  /\ UNCHANGED <<parent, errors, ret, sdf, link>>

\* Material::ToElement, whose result is kept in parent
MaterialToElementOn ==
  /\ MaterialBuilt
  /\ parent' = MaterialToElement(material)
  /\ call' = [op |-> "Material::ToElement", material |-> material]
  /\ UNCHANGED <<errors, ret, sdf, link, material>>

\* Material::Load of the element that ToElement made, on a new material;
\* the material that made the element stays with the call
LoadMaterialElement ==
  /\ call.op = "Material::ToElement"
  /\ material' = MaterialLoad(NewMaterial, parent).material
  /\ errors' = MaterialLoad(NewMaterial, parent).errors
  /\ call' = [op |-> "Material::Load(ToElement)",
              material |-> call.material, sdf |-> parent]
  /\ UNCHANGED <<parent, ret, sdf, link>>

NextMaterialRoundTrip ==
  \/ LoadMaterialOnce
  \/ SetScriptUri
  \/ SetScriptName
  \/ SetNormalMap
  \/ MaterialToElementOn
  \/ LoadMaterialElement

SpecMaterialRoundTrip == InitLoad /\ [][NextMaterialRoundTrip]_vars

-----------------------------------------------------------------------------
(* Claims about the round trip of a material *)

MaterialRoundTrip == call.op = "Material::Load(ToElement)"

\* the fields that ToElement always writes and Load reads back
SameShaderFields ==
  /\ material.shader = call.material.shader
  /\ material.lighting = call.material.lighting
  /\ material.doubleSided = call.material.doubleSided
  /\ material.renderOrder = call.material.renderOrder

\* the text Load makes of a text: "__default__" is read as ""
ReadBack(_text) == IF _text = "__default__" THEN "" ELSE _text

\* C22 as stated: for every material, Load of its ToElement yields a material
\* with the same script URI, script name, shader type, normal map, lighting,
\* double-sided flag and render order.
C22_MaterialRoundTripEvery ==
  MaterialRoundTrip =>
    /\ SameShaderFields
    /\ material.normalMap = call.material.normalMap
    /\ material.scriptUri = call.material.scriptUri
    /\ material.scriptName = call.material.scriptName

\* C22: for every material, Load of its ToElement yields a material with the
\* same shader type, lighting, double-sided flag and render order; the normal
\* map, the script URI and the script name are the same except that the text
\* "__default__" comes back empty, and that a script of which the URI or the
\* name is empty is not written, so that both come back empty.
C22_MaterialRoundTrip ==
  MaterialRoundTrip =>
    /\ SameShaderFields
    /\ material.normalMap = ReadBack(call.material.normalMap)
    /\ IF call.material.scriptUri # "" /\ call.material.scriptName # ""
       THEN /\ material.scriptUri = ReadBack(call.material.scriptUri)
            /\ material.scriptName = ReadBack(call.material.scriptName)
       ELSE /\ material.scriptUri = ""
            /\ material.scriptName = ""

\* a material with a script, a tangent space shader with its normal map and
\* the values of the element went through the round trip
C22_Witness ==
  /\ MaterialRoundTrip
  /\ material.shader = "NORMAL_MAP_TANGENTSPACE"
  /\ material.normalMap = "n.png"
  /\ material.scriptUri = "file://m.material"
  /\ material.scriptName = "Red"
  /\ material.renderOrder = 2
  /\ ~material.lighting
  /\ material.doubleSided
  /\ call.material.scriptUri = "file://m.material"
  /\ call.material.shader = "NORMAL_MAP_TANGENTSPACE"

-----------------------------------------------------------------------------
(* checkJointParentChildNames *)
(*                                                                         *)
(* A joint of the DOM is a record [name, parentName, childName], a model a *)
(* record [name, joints], a root a record [hasModel, model, worlds] with   *)
(* worlds a sequence of sequences of models.  Every model has the links L1 *)
(* and L2, L1 canonical, and a frame F attached to L1.                     *)

JointDom(_name, _parentName, _childName) ==
  [name |-> _name, parentName |-> _parentName, childName |-> _childName]

ModelDom(_name, _joints) == [name |-> _name, joints |-> _joints]

RootDom(_hasModel, _model, _worlds) ==
  [hasModel |-> _hasModel, model |-> _model, worlds |-> _worlds]

ModelLinks == {"L1", "L2"}

\* sdf::SplitName(_name).second, on names without "::"
LocalName(_name) == _name

\* the link a frame of the model, other than a joint, is attached to;
\* "" for a name that is no vertex of the graph
attachedLink(_name) ==
  IF _name \in ModelLinks THEN _name
  ELSE IF _name \in {"F", "__model__"} THEN "L1"
  ELSE ""

\* Model::NameExistsInFrameAttachedToGraph: links, frames, joints and
\* __model__ are vertices
NameExistsInFrameAttachedToGraph(_model, _name) ==
  \/ attachedLink(_name) # ""
  \/ \E i \in 1..Len(_model.joints) : _model.joints[i].name = _name

\* resolveFrameAttachedToBody: a joint is attached to its child frame; a
\* name that is no vertex, and a joint attached to itself or to no vertex,
\* fail.  link is "" when there are errors.
resolveFrameAttachedToBody(_joint, _name) ==
  LET body == IF _name = _joint.name
              THEN (IF _joint.childName = _joint.name THEN ""
                    ELSE attachedLink(_joint.childName))
              ELSE attachedLink(_name)
  IN  [link |-> body,
       errors |-> IF body = "" THEN <<"FRAME_ATTACHED_TO_INVALID">> ELSE <<>>]

\* Joint::ResolveChildLink: _link is assigned only when there are no errors
ResolveChildLink(_joint, _link) ==
  LET r == resolveFrameAttachedToBody(_joint, _joint.childName)
  IN  [link |-> IF r.errors = <<>> THEN r.link ELSE _link,
       errors |-> r.errors]

\* Joint::ResolveParentLink: "world" is returned without resolving
ResolveParentLink(_joint, _link) ==
  LET r == resolveFrameAttachedToBody(_joint, _joint.parentName)
  IN  IF _joint.parentName = "world"
      THEN [link |-> "world", errors |-> <<>>]
      ELSE [link |-> IF r.errors = <<>> THEN r.link ELSE _link,
            errors |-> r.errors]

\* The errors of one pass of the loop over the joints of _model.
jointParentChildErrors(_model, _joint) ==
  LET parentName == _joint.parentName
      childName  == _joint.childName
      child      == ResolveChildLink(_joint, "")
      parnt      == ResolveParentLink(_joint, "")
  IN  (IF /\ parentName # "world"
          /\ LocalName(parentName) # "__model__"
          /\ ~NameExistsInFrameAttachedToGraph(_model, parentName)
       THEN <<"JOINT_PARENT_LINK_INVALID">> ELSE <<>>)
      \o (IF childName = "world"
          THEN <<"JOINT_CHILD_LINK_INVALID">> ELSE <<>>)
      \o (IF /\ LocalName(childName) # "__model__"
             /\ ~NameExistsInFrameAttachedToGraph(_model, childName)
          THEN <<"JOINT_CHILD_LINK_INVALID">> ELSE <<>>)
      \o (IF childName = _joint.name
          THEN <<"JOINT_CHILD_LINK_INVALID">> ELSE <<>>)
      \o (IF parentName = _joint.name
          THEN <<"JOINT_PARENT_LINK_INVALID">> ELSE <<>>)
      \o child.errors
      \o parnt.errors
      \o (IF child.link = parnt.link
          THEN <<"JOINT_PARENT_SAME_AS_CHILD">> ELSE <<>>)

\* the concatenation of a sequence of sequences
RECURSIVE Flatten(_)
Flatten(_seqs) ==
  IF _seqs = <<>> THEN <<>> ELSE Head(_seqs) \o Flatten(Tail(_seqs))

\* the lambda checkModelJointParentChildNames: the errors it appends
checkModelJointParentChildNames(_model) ==
  Flatten([j \in 1..Len(_model.joints) |->
             jointParentChildErrors(_model, _model.joints[j])])

\* checkJointParentChildNames that leaves out the models of the worlds
checkJointParentChildNamesOfRoot(_root, _errors) ==
  _errors \o (IF _root.hasModel
              THEN checkModelJointParentChildNames(_root.model) ELSE <<>>)

\* checkJointParentChildNames: _errors after the call
checkJointParentChildNames(_root, _errors) ==
  _errors
  \o (IF _root.hasModel
      THEN checkModelJointParentChildNames(_root.model) ELSE <<>>)
  \o Flatten([w \in 1..Len(_root.worlds) |->
       Flatten([m \in 1..Len(_root.worlds[w]) |->
                  checkModelJointParentChildNames(_root.worlds[w][m])])])

-----------------------------------------------------------------------------
(* The inputs and the specification of checkJointParentChildNames *)

JointFrameNames == {"L1", "L2", "F", "missing"}

\* joints between every two of the names, and joints that name the world,
\* the model or themselves
JointDoms ==
  {JointDom("J", p, c) : p, c \in JointFrameNames}
  \cup {JointDom("J", "world", "L1"), JointDom("J", "L1", "world"),
        JointDom("J", "__model__", "L2"), JointDom("J", "J", "L1"),
        JointDom("J", "L1", "J"), JointDom("J", "world", "missing")}

\* the root model, with its joints
RootModels ==
  {ModelDom("M", js) :
     js \in UNION {[1..k -> JointDoms] : k \in 0..MaxModelJoints}}

\* the models of a world, each with one joint
WorldModelDoms == {ModelDom("N", <<j>>) : j \in JointDoms}

NoModelDom == ModelDom("", <<>>)

RootDoms ==
  {RootDom(TRUE, m, <<>>) : m \in RootModels}
  \cup {RootDom(FALSE, NoModelDom, <<ms>>) :
          ms \in UNION {[1..k -> WorldModelDoms] : k \in 0..MaxWorldModels}}
  \cup {RootDom(FALSE, NoModelDom, <<>>)}

InitCheck ==
  /\ parent = NullElem
  /\ errors \in InitErrors
  /\ ret = "none"
  /\ call = NoCall
  /\ sdf = NullSdf
  /\ link = NewLink
  /\ material = NewMaterial

\* checkJointParentChildNames(_root, _errors)
CheckJointParentChildNames ==
  /\ Idle
  /\ \E r \in RootDoms :
       /\ errors' = checkJointParentChildNames(r, errors)
       /\ call' = [op |-> "checkJointParentChildNames", root |-> r,
                   errors |-> errors]
  /\ UNCHANGED <<parent, ret, sdf, link, material>>

NextCheck == CheckJointParentChildNames

SpecCheck == InitCheck /\ [][NextCheck]_vars

-----------------------------------------------------------------------------
(* Claims about checkJointParentChildNames *)

JointsChecked == call.op = "checkJointParentChildNames"

\* the joints of the root model and of the models of the worlds
CheckedJoints ==
  (IF call.root.hasModel THEN call.root.model.joints ELSE <<>>)
  \o Flatten([w \in 1..Len(call.root.worlds) |->
       Flatten([m \in 1..Len(call.root.worlds[w]) |->
                  call.root.worlds[w][m].joints])])

\* both frames of the joint resolve, and to the same link
ResolveToSameLink(_joint) ==
  /\ ResolveChildLink(_joint, "").errors = <<>>
  /\ ResolveParentLink(_joint, "").errors = <<>>
  /\ ResolveChildLink(_joint, "").link = ResolveParentLink(_joint, "").link

\* a resolution of the joint fails
ResolutionFails(_joint) ==
  \/ ResolveChildLink(_joint, "").errors # <<>>
  \/ ResolveParentLink(_joint, "").errors # <<>>

Count(_seq, _x) == Cardinality({i \in 1..Len(_seq) : _seq[i] = _x})

CountJoints(_seq, P(_)) == Cardinality({i \in 1..Len(_seq) : P(_seq[i])})

\* C23: for every joint of the root model and of each model of a world whose
\* parent and child frames resolve to the same link, the check appends a
\* JOINT_PARENT_SAME_AS_CHILD error: there are at least as many of these
\* errors as there are such joints.
C23_SameLinkReported ==
  JointsChecked =>
    Count(NewErrors, "JOINT_PARENT_SAME_AS_CHILD")
      >= CountJoints(CheckedJoints, ResolveToSameLink)

\* a world with two models: the joint of the first goes from L1 to the frame
\* attached to L1, that of the second from L1 to L2
C23_Witness ==
  /\ JointsChecked
  /\ ~call.root.hasModel
  /\ Len(call.root.worlds) = 1
  /\ Len(call.root.worlds[1]) = 2
  /\ call.root.worlds[1][1].joints = <<JointDom("J", "L1", "F")>>
  /\ call.root.worlds[1][2].joints = <<JointDom("J", "L1", "L2")>>
  /\ NewErrors = <<"JOINT_PARENT_SAME_AS_CHILD">>

\* C30: JOINT_PARENT_SAME_AS_CHILD is appended for a joint only when both
\* resolutions succeeded with the same link: there are exactly as many of
\* these errors as there are such joints, and none for a joint of which a
\* resolution fails.
C30_SameLinkOnlyWhenResolved ==
  JointsChecked =>
    Count(NewErrors, "JOINT_PARENT_SAME_AS_CHILD")
      = CountJoints(CheckedJoints, ResolveToSameLink)

-----------------------------------------------------------------------------
(* Claims about names with ':' *)

IsNamespaced(_x) == ContainsColon(_x.name)

NotNamespaced(_x) == ~ContainsColon(_x.name)

\* the XML element without its attributes and children with ':' in the name
WithoutNamespaced(_xml) ==
  [_xml EXCEPT !.attributes = SelectSeq(@, NotNamespaced),
               !.children = SelectSeq(@, NotNamespaced)]

\* the element holds the XML element as strings: its name, its attributes,
\* its text and, in the same way, its descendants
RECURSIVE IsPassthroughOf(_, _)
IsPassthroughOf(_elem, _elemXml) ==
  /\ _elem.name = _elemXml.name
  /\ _elem.value = _elemXml.value
  /\ _elemXml.value # "" => _elem.valueType = "string"
  /\ Len(_elem.attributes) = Len(_elemXml.attributes)
  /\ \A i \in 1..Len(_elemXml.attributes) :
       /\ _elem.attributes[i].key = _elemXml.attributes[i].name
       /\ _elem.attributes[i].type = "string"
       /\ _elem.attributes[i].value = _elemXml.attributes[i].value
  /\ Len(_elem.children) = Len(_elemXml.children)
  /\ \A i \in 1..Len(_elemXml.children) :
       IsPassthroughOf(_elem.children[i], _elemXml.children[i])

\* readXml went through the loop over the attributes
AttributesRead == XmlCalled /\ call.at \notin {"null", "attributes"}

\* readXml copied the children that have no description
ChildrenCopied == XmlCalled /\ call.at \in {"copy", "required", "end"}

\* the elements of the sequence that satisfy P, in their order
NamespacedOf(_seq) == SelectSeq(_seq, IsNamespaced)

\* C24: an attribute or a child element whose name contains ':' is accepted
\* without any error under every policy: the errors and the result of readXml
\* are those of the same XML without them; the attribute is added to the
\* element as a string attribute holding the value of the XML, and the child
\* is copied with its attributes, text and descendants as strings.
C24_NamespacedAccepted ==
  (XmlCalled /\ call.xml.name # "") =>
    LET plain == readXml(WithoutNamespaced(call.xml), call.parent,
                         call.config, call.errors)
    IN  /\ errors = plain.errors
        /\ ret = BoolRet(plain)
        /\ AttributesRead =>
             \A i \in 1..Len(call.xml.attributes) :
               IsNamespaced(call.xml.attributes[i]) =>
                 \E k \in 1..Len(parent.attributes) :
                   /\ parent.attributes[k].key = call.xml.attributes[i].name
                   /\ parent.attributes[k].type = "string"
                   /\ parent.attributes[k].value
                        = call.xml.attributes[i].value
        /\ ChildrenCopied =>
             LET copies == NamespacedOf(parent.children)
                 given  == NamespacedOf(call.xml.children)
             IN  /\ Len(copies) = Len(given)
                 /\ \A j \in 1..Len(given) :
                      IsPassthroughOf(copies[j], given[j])

-----------------------------------------------------------------------------
(* Link::Add... and Link::Clear... *)
(*                                                                         *)
(* The children of a link are the sequences visuals, lights, collisions,   *)
(* sensors and emitters of the record of the link.  A child added is a     *)
(* record [name, tag]: two children of the same name and different tags    *)
(* are different objects of one name.                                      *)

ChildLists == {"collisions", "visuals", "lights", "sensors", "emitters"}

ChildObject(_name, _tag) == [name |-> _name, tag |-> _tag]

ChildObjects ==
  {ChildObject("a", "1"), ChildObject("a", "2"), ChildObject("b", "1")}

\* Link::CollisionNameExists, VisualNameExists, LightNameExists,
\* SensorNameExists, ParticleEmitterNameExists on the list they look in
NameExists(_objs, _name) == \E i \in 1..Len(_objs) : _objs[i].name = _name

\* Link::Add... that does not look for the name
LinkAddAlways(_link, _list, _obj) ==
  [ret |-> TRUE, link |-> [_link EXCEPT ![_list] = Append(@, _obj)]]

\* Link::AddCollision, AddVisual, AddLight, AddSensor, AddParticleEmitter
LinkAdd(_link, _list, _obj) ==
  IF NameExists(_link[_list], _obj.name)
  THEN [ret |-> FALSE, link |-> _link]
  ELSE [ret |-> TRUE, link |-> [_link EXCEPT ![_list] = Append(@, _obj)]]

\* Link::ClearCollisions, ClearVisuals, ClearLights, ClearSensors,
\* ClearParticleEmitters
LinkClear(_link, _list) == [_link EXCEPT ![_list] = <<>>]

InitChildren ==
  /\ parent = NullElem
  /\ errors = <<>>
  /\ ret = "none"
  /\ call = NoCall
  /\ sdf = NullSdf
  /\ link = NewLink
  /\ material = NewMaterial

AddCollision ==
  /\ \E o \in ChildObjects :
       /\ link' = LinkAdd(link, "collisions", o).link
       /\ ret' = BoolRet(LinkAdd(link, "collisions", o))
       /\ call' = [op |-> "Link::AddCollision", list |-> "collisions", obj |-> o]
  /\ UNCHANGED <<parent, errors, sdf, material>>

AddVisual ==
  /\ \E o \in ChildObjects :
       /\ link' = LinkAdd(link, "visuals", o).link
       /\ ret' = BoolRet(LinkAdd(link, "visuals", o))
       /\ call' = [op |-> "Link::AddVisual", list |-> "visuals", obj |-> o]
  /\ UNCHANGED <<parent, errors, sdf, material>>

AddLight ==
  /\ \E o \in ChildObjects :
       /\ link' = LinkAdd(link, "lights", o).link
       /\ ret' = BoolRet(LinkAdd(link, "lights", o))
       /\ call' = [op |-> "Link::AddLight", list |-> "lights", obj |-> o]
  /\ UNCHANGED <<parent, errors, sdf, material>>

AddSensor ==
  /\ \E o \in ChildObjects :
       /\ link' = LinkAdd(link, "sensors", o).link
       /\ ret' = BoolRet(LinkAdd(link, "sensors", o))
       /\ call' = [op |-> "Link::AddSensor", list |-> "sensors", obj |-> o]
  /\ UNCHANGED <<parent, errors, sdf, material>>

AddParticleEmitter ==
  /\ \E o \in ChildObjects :
       /\ link' = LinkAdd(link, "emitters", o).link
       /\ ret' = BoolRet(LinkAdd(link, "emitters", o))
       /\ call' = [op |-> "Link::AddParticleEmitter", list |-> "emitters", obj |-> o]
  /\ UNCHANGED <<parent, errors, sdf, material>>

ClearCollisions ==
  /\ link' = LinkClear(link, "collisions")
  /\ ret' = "none"
  /\ call' = [op |-> "Link::ClearCollisions", list |-> "collisions"]
  /\ UNCHANGED <<parent, errors, sdf, material>>

ClearVisuals ==
  /\ link' = LinkClear(link, "visuals")
  /\ ret' = "none"
  /\ call' = [op |-> "Link::ClearVisuals", list |-> "visuals"]
  /\ UNCHANGED <<parent, errors, sdf, material>>

ClearLights ==
  /\ link' = LinkClear(link, "lights")
  /\ ret' = "none"
  /\ call' = [op |-> "Link::ClearLights", list |-> "lights"]
  /\ UNCHANGED <<parent, errors, sdf, material>>

ClearSensors ==
  /\ link' = LinkClear(link, "sensors")
  /\ ret' = "none"
  /\ call' = [op |-> "Link::ClearSensors", list |-> "sensors"]
  /\ UNCHANGED <<parent, errors, sdf, material>>

ClearParticleEmitters ==
  /\ link' = LinkClear(link, "emitters")
  /\ ret' = "none"
  /\ call' = [op |-> "Link::ClearParticleEmitters", list |-> "emitters"]
  /\ UNCHANGED <<parent, errors, sdf, material>>

NextChildren ==
  \/ AddCollision
  \/ AddVisual
  \/ AddLight
  \/ AddSensor
  \/ AddParticleEmitter
  \/ ClearCollisions
  \/ ClearVisuals
  \/ ClearLights
  \/ ClearSensors
  \/ ClearParticleEmitters

SpecChildren == InitChildren /\ [][NextChildren]_vars

-----------------------------------------------------------------------------
(* Claims about Link::Add... and Link::Clear... *)

AddOps ==
  {"Link::AddCollision", "Link::AddVisual", "Link::AddLight",
   "Link::AddSensor", "Link::AddParticleEmitter"}

\* the names within each list of children are pairwise distinct
ChildNamesDistinct ==
  \A l \in ChildLists :
    \A i, j \in 1..Len(link[l]) : i # j => link[l][i].name # link[l][j].name

\* a step of an Add: when the name is in its list it returns false and
\* every list is as before; otherwise it returns true, its list is the one
\* before with the child at the end and the other lists are as before
AddStep ==
  call'.op \in AddOps =>
    LET l == call'.list
        o == call'.obj
    IN  IF \E i \in 1..Len(link[l]) : link[l][i].name = o.name
        THEN /\ ret' = "false"
             /\ \A k \in ChildLists : link'[k] = link[k]
        ELSE /\ ret' = "true"
             /\ link'[l] = link[l] \o <<o>>
             /\ \A k \in ChildLists \ {l} : link'[k] = link[k]

\* C25: from a link with no children, after any sequence of Add and Clear
\* calls the names within each list of children are pairwise distinct; an Add
\* of a name that is in its list returns false and leaves every list
\* unchanged, and an Add that succeeds appends at the end of its own list
\* only.
C25_ChildNamesStayDistinct == []ChildNamesDistinct /\ [][AddStep]_vars

\* the visual a is refused on a link that has the visuals b and another a,
\* added after a ClearVisuals emptied the list
C25_Witness ==
  /\ call.op = "Link::AddVisual"
  /\ call.obj = ChildObject("a", "2")
  /\ ret = "false"
  /\ link.visuals = <<ChildObject("b", "1"), ChildObject("a", "1")>>
  /\ link.collisions = <<ChildObject("a", "2")>>

-----------------------------------------------------------------------------
(* Claims about an <include> whose URI is not resolved *)

\* the <include> has no <uri>
UriMissing == ~HasElement(call.includeXml, "uri")

\* the <uri> is not found, or is a directory without a model.config
UriNotResolved ==
  /\ ~UriMissing
  /\ \/ call.env.lookup.modelPath = ""
     \/ /\ call.env.lookup.isDirectory
        /\ call.env.lookup.modelFilePath = ""

\* the errors of validateIncludeElement for the <include> of the call
ValidationErrors ==
  call.env.read.errors
  \o (IF call.env.read.ok THEN <<>> ELSE <<"ELEMENT_INVALID">>)

\* C26: an <include> whose URI cannot be resolved (no <uri>, a lookup that
\* finds nothing, a directory without model config) is recoverable: after
\* the errors of the validation of the <include> the resolver appends exactly
\* one error, ATTRIBUTE_MISSING for the missing <uri> and URI_LOOKUP
\* otherwise; nothing is inserted into the parent, and readXml goes on to the
\* next child instead of returning false.
C26_UnresolvedUriRecoverable ==
  (IncludeCalled /\ (UriMissing \/ UriNotResolved)) =>
    /\ NewErrors = ValidationErrors
         \o <<IF UriMissing THEN "ATTRIBUTE_MISSING" ELSE "URI_LOOKUP">>
    /\ parent = call.parent
    /\ ret = "continue"

\* a merge-include of a directory without a model.config, where custom
\* parsers are registered
C26_Witness ==
  /\ IncludeCalled
  /\ toMerge(call.includeXml)
  /\ call.env.lookup.isDirectory
  /\ call.env.lookup.modelFilePath = ""
  /\ call.env.customModelParsers
  /\ call.env.read.ok
  /\ NewErrors = <<"URI_LOOKUP">>
  /\ parent = call.parent
  /\ ret = "continue"

-----------------------------------------------------------------------------
(* getBestSupportedModelVersion *)
(*                                                                         *)
(* The <model> of a model.config is an Elem whose children named sdf are   *)
(* the entries: the attribute version when there is one, and the file name *)
(* as the text, "" for an entry without text.                              *)

\* SDF_VERSION
SdfParserVersion == SdfVersion

\* operator> of ignition::math::SemanticVersion
VersionGreater(_a, _b) ==
  \/ _a[1] > _b[1]
  \/ _a[1] = _b[1] /\ _a[2] > _b[2]

\* The loop over the <sdf> elements from the i-th on; _sdfXML is the index
\* of the entry sdfXML points to, 0 for null.
RECURSIVE searchBestVersion(_, _, _, _)
searchBestVersion(_entries, _i, _sdfXML, _bestVersionStr) ==
  IF _i > Len(_entries)
  THEN [sdfXML |-> _sdfXML, bestVersionStr |-> _bestVersionStr]
  ELSE IF /\ HasAttribute(_entries[_i], "version")
          /\ VersionGreater(SemanticVersion(_entries[_i].attrs.version),
                            SemanticVersion(_bestVersionStr))
          /\ ~VersionGreater(SemanticVersion(_entries[_i].attrs.version),
                             SemanticVersion(SdfParserVersion))
  THEN searchBestVersion(_entries, _i + 1, _i, _entries[_i].attrs.version)
  ELSE searchBestVersion(_entries, _i + 1, _sdfXML, _bestVersionStr)

\* the children of the <model> that are <sdf> elements
SdfEntries(_modelXML) ==
  SelectSeq(_modelXML.children, LAMBDA e : e.name = "sdf")

\* getBestSupportedModelVersion: the version returned and _modelFileName
getBestSupportedModelVersion(_modelXML) ==
  LET entries == SdfEntries(_modelXML)
      found   == searchBestVersion(entries, 1,
                                   IF entries = <<>> THEN 0 ELSE 1, "0.0")
  IN  IF found.sdfXML = 0 \/ entries[found.sdfXML].value = ""
      THEN [version |-> "", modelFileName |-> ""]
      ELSE [version |-> found.bestVersionStr,
            modelFileName |-> entries[found.sdfXML].value]

-----------------------------------------------------------------------------
(* The inputs and the specification of getBestSupportedModelVersion *)

\* the file name of the entry at each place of the model.config
EntryFiles == <<"a.sdf", "b.sdf", "c.sdf", "d.sdf">>

\* no version, two versions the parser reads and one newer than the parser
EntryVersions == {"", "1.6", "1.9", "2.0"}

SdfEntry(_version, _text) ==
  Elem("sdf", IF _version = "" THEN NoAttrs ELSE [version |-> _version],
       _text, <<>>)

\* the model.config files: a <name> and up to MaxSdfEntries entries, each
\* with or without its file name
ModelConfigs ==
  UNION {{Elem("model", NoAttrs, "",
               <<XmlText("name", "m")>>
               \o [i \in 1..n |->
                     SdfEntry(v[i], IF t[i] THEN EntryFiles[i] ELSE "")]) :
            v \in [1..n -> EntryVersions], t \in [1..n -> BOOLEAN]} :
         n \in 0..MaxSdfEntries}

GetBestSupportedModelVersion ==
  /\ Idle
  /\ \E m \in ModelConfigs :
       /\ ret' = getBestSupportedModelVersion(m).version
       /\ call' = [op |-> "getBestSupportedModelVersion", modelXML |-> m,
                   modelFileName |->
                     getBestSupportedModelVersion(m).modelFileName]
  /\ UNCHANGED <<parent, errors, sdf, link, material>>

NextVersion == GetBestSupportedModelVersion

SpecVersion == InitCheck /\ [][NextVersion]_vars

-----------------------------------------------------------------------------
(* Claims about getBestSupportedModelVersion *)

VersionCalled == call.op = "getBestSupportedModelVersion"

\* the <sdf> entries of the model.config of the call
ConfigEntries == SdfEntries(call.modelXML)

EntryVersion(_i) == SemanticVersion(ConfigEntries[_i].attrs.version)

\* the entry has a version newer than the parser
NewerThanParser(_i) ==
  /\ HasAttribute(ConfigEntries[_i], "version")
  /\ VersionGreater(EntryVersion(_i), SemanticVersion(SdfParserVersion))

\* the entry has a version that is not newer than the parser
Readable(_i) ==
  /\ HasAttribute(ConfigEntries[_i], "version")
  /\ ~VersionGreater(EntryVersion(_i), SemanticVersion(SdfParserVersion))

\* the entry has the greatest of the versions not newer than the parser
GreatestReadable(_i) ==
  /\ Readable(_i)
  /\ \A j \in 1..Len(ConfigEntries) :
       Readable(j) => ~VersionGreater(EntryVersion(j), EntryVersion(_i))

\* when an entry is not newer than the parser, the file name returned is
\* that of an entry with the greatest such version
GreatestReadableSelected ==
  (VersionCalled /\ \E i \in 1..Len(ConfigEntries) : Readable(i)) =>
    \E i \in 1..Len(ConfigEntries) :
      /\ GreatestReadable(i)
      /\ call.modelFileName = ConfigEntries[i].value
      /\ ConfigEntries[i].value # "" => ret = ConfigEntries[i].attrs.version

\* C27: getBestSupportedModelVersion returns the file name of the entry with
\* the greatest version that is not newer than the parser, and the file name
\* of an entry newer than the parser is never the one returned, also when
\* every entry is newer than the parser.
C27_BestSupportedVersionSelected ==
  /\ GreatestReadableSelected
  /\ VersionCalled =>
       \A i \in 1..Len(ConfigEntries) :
         (NewerThanParser(i) /\ ConfigEntries[i].value # "") =>
           call.modelFileName # ConfigEntries[i].value

-----------------------------------------------------------------------------
(* Claims about the references below the children of a merged model *)

\* the children of a hoisted element that the merge does not look at
BelowDirect(_elem) ==
  _elem.name \notin {"pose", "parent", "child", "axis", "axis2"}

\* a child of the element has a pose relative to __model__
HasNestedModelPose(_elem) ==
  \E i \in 1..Len(_elem.children) :
    /\ BelowDirect(_elem.children[i])
    /\ HasElement(_elem.children[i], "pose")
    /\ RelativeTo(_elem.children[i]) = "__model__"

\* C28: a merge-include rewrites frame references only on the direct children
\* of the merged model: the visuals, collisions and sensors of a hoisted
\* child, with their poses relative to __model__, are in the parent as they
\* were in the included file.
C28_NestedPosesKept ==
  MergeDone =>
    /\ Len(HoistedAfter) = Len(HoistedBefore)
    /\ \A i \in 1..Len(HoistedBefore) :
         SelectSeq(HoistedAfter[i].children, BelowDirect)
           = SelectSeq(HoistedBefore[i].children, BelowDirect)

\* the pose of the link is rewritten to the proxy frame and the pose of its
\* visual is still relative to __model__
C28_Witness ==
  /\ MergeDone
  /\ Len(HoistedBefore) = 2
  /\ HoistedBefore[1].name = "link"
  /\ HasElement(HoistedBefore[1], "pose")
  /\ RelativeTo(HoistedBefore[1]) = "__model__"
  /\ HasNestedModelPose(HoistedBefore[1])
  /\ RelativeTo(HoistedAfter[1]) = MergedName
  /\ HasElement(HoistedAfter[1], "visual")
  /\ RelativeTo(GetElementImpl(HoistedAfter[1], "visual")) = "__model__"
  /\ HoistedBefore[2].name = "joint"
  /\ HasNestedModelPose(HoistedBefore[2])
  /\ HasElement(HoistedAfter[2], "sensor")
  /\ RelativeTo(GetElementImpl(HoistedAfter[2], "sensor")) = "__model__"

-----------------------------------------------------------------------------
(* Sequences of reads into one SDF object *)

\* documents with two versions and two line numbers of the <sdf> element,
\* a document without a version and one without <sdf>
SequenceDocs ==
  {XmlDoc(FALSE, FALSE, l, <<Elem("sdf", [version |-> v], "", c)>>) :
     v \in DocVersions, l \in {1, 3},
     c \in {<<>>, <<Model("M", "", <<DocLink>>)>>}}
  \cup {XmlDoc(FALSE, FALSE, 1, <<Elem("sdf", NoAttrs, "", <<>>)>>),
        XmlDoc(FALSE, FALSE, 1, <<Elem("robot", [name |-> "R"], "", <<>>)>>)}

SequenceReads ==
  {[ok |-> TRUE, errors |-> <<>>],
   [ok |-> FALSE, errors |-> <<"ATTRIBUTE_MISSING">>]}

\* the number of reads made so far
ReadsDone == IF call.op = "none" THEN 0 ELSE call.reads

\* the version of the <sdf> element of the document, "" when it has none
DocVersion(_xmlDoc) ==
  IF HasElement(_xmlDoc, "sdf")
     /\ HasAttribute(GetElementImpl(_xmlDoc, "sdf"), "version")
  THEN GetElementImpl(_xmlDoc, "sdf").attrs.version ELSE ""

\* one more readDoc on the SDF object
ReadDocNext ==
  /\ ReadsDone < MaxReads
  /\ \E c \in BOOLEAN : \E d \in SequenceDocs \cup {NullDoc} :
       \E x \in SequenceReads : \E src \in {kSdfStringSource, "m.sdf"} :
         /\ sdf' = readDoc(d, sdf, src, c, x, errors).sdf
         /\ errors' = readDoc(d, sdf, src, c, x, errors).errors
         /\ ret' = BoolRet(readDoc(d, sdf, src, c, x, errors))
         /\ call' = [op |-> "readDoc", reads |-> ReadsDone + 1,
                     version |-> DocVersion(d), line |-> d.sdfLine,
                     sdf |-> sdf]
  /\ UNCHANGED <<parent, link, material>>

\* one more readString on the SDF object: readDoc of the document and, when
\* that fails, readDoc of what URDF2SDF makes of it
ReadStringNext ==
  /\ ReadsDone < MaxReads
  /\ \E c \in BOOLEAN : \E d \in SequenceDocs \cup {FailedDoc} :
       \E x \in SequenceReads : \E u \in UrdfDocs :
         LET in == StringInput(d, x, u, [ok |-> TRUE, errors |-> <<>>])
         IN  /\ sdf' = readStringInternal(in, c, sdf, errors).sdf
             /\ errors' = readStringInternal(in, c, sdf, errors).errors
             /\ ret' = BoolRet(readStringInternal(in, c, sdf, errors))
             /\ call' = [op |-> "readStringInternal",
                         reads |-> ReadsDone + 1,
                         version |-> DocVersion(d), line |-> d.sdfLine,
                         sdf |-> sdf]
  /\ UNCHANGED <<parent, link, material>>

NextReadSequence == ReadDocNext \/ ReadStringNext

SpecReadSequence == InitRead /\ [][NextReadSequence]_vars

-----------------------------------------------------------------------------
(* Claims about sequences of reads *)

\* what is recorded of the original document stays as it is
RecordedKept ==
  /\ sdf.originalVersion # "" => sdf'.originalVersion = sdf.originalVersion
  /\ sdf.root.originalVersion # ""
       => sdf'.root.originalVersion = sdf.root.originalVersion
  /\ sdf.root.lineNumber # 0 => sdf'.root.lineNumber = sdf.root.lineNumber
  /\ sdf.root.xmlPath # "" => sdf'.root.xmlPath = sdf.root.xmlPath

\* C29: the original version of an SDF object and the original version, line
\* number and XML path of its root are written once over any sequence of
\* readDoc calls on the object: a later readDoc, such as the one on the URDF
\* document after a failed read or one of a document of another version,
\* leaves what the first recorded.
C29_OriginalWrittenOnce == [][RecordedKept]_vars

\* a second read, of a document of version 1.9 at line 3, on an object that
\* a first read of a document of version 1.6 at line 1 was recorded on
C29_Witness ==
  /\ call.op = "readDoc"
  /\ call.reads = 2
  /\ call.version = "1.9"
  /\ call.line = 3
  /\ ret = "true"
  /\ call.sdf.originalVersion = "1.6"
  /\ call.sdf.root.lineNumber = 1
  /\ sdf.originalVersion = "1.6"
  /\ sdf.root.originalVersion = "1.6"
  /\ sdf.root.lineNumber = 1
  /\ sdf.root.xmlPath = "/sdf"

====
